---- MODULE Spec2Model ----
(***************************************************************************)
(* Model of the in-process load-testing core of lakebase-poc-accelerator:  *)
(* the singleton LakebaseConnectionService (OAuth token cell, background   *)
(* token refresher, SQLAlchemy async engine and its connection pool), the  *)
(* concurrent query executor with its admission semaphore, and the HTTP    *)
(* endpoints of app/backend/main.py that drive it.  All coroutines run on  *)
(* one asyncio event loop: a step of the model is the code between two     *)
(* suspension points.                                                      *)
(***************************************************************************)
EXTENDS Integers, Sequences, FiniteSets, TLC

(***************************************************************************)
(* Bounds of the model.                                                    *)
(***************************************************************************)
\* HTTP requests that may overlap on the event loop, named in their order of arrival.
Requests == {"r1", "r2"}
ArrivesAfter(r) == IF r = "r2" THEN {"r1"} ELSE {}
\* Largest execution_count of a scenario.
MaxReps == 2
\* Largest number of (query, scenario) pairs of a request.
MaxPairs == 2
\* Largest concurrency_level of a request.
MaxConcurrency == 2
\* Largest number of query executions that all requests together ask for.
MaxUnits == 3
\* Wake-ups of the refresher loop that the model follows.
MaxRefresh == 2

NoEngine == "None"
NoConn == [auth |-> 0, at |-> 0]
NoReport == [total |-> -1, successful |-> -1, failed |-> -1]

(***************************************************************************)
(* Request inputs.                                                         *)
(***************************************************************************)
\* scenario['parameters'] is a list, or (from an uploaded "-- PARAMETERS:"
\* line) a JSON scalar, on which len() raises TypeError.
ParamKinds == {"list", "scalar"}
Scenarios == [execution_count : 1..MaxReps, parameters : ParamKinds]
Workloads == UNION {[1..n -> Scenarios] : n \in 1..MaxPairs}

\* pool_config dictionaries with the keys the service reads: a pool of one
\* connection and no overflow, which a run of concurrency_level 2 exhausts.
PoolConfigs == { [DB_POOL_SIZE |-> 1, DB_MAX_OVERFLOW |-> 0] }

\* dict.get(key, default)
Get(cfg, key, default) == IF key \in DOMAIN cfg THEN cfg[key] ELSE default

Max(a, b) == IF a >= b THEN a ELSE b

\* base_pool_size, max_overflow of initialize_connection_pool
BasePoolSize(cfg) == Get(cfg, "DB_POOL_SIZE", Max(1, Get(cfg, "concurrency", 5)))
MaxOverflow(cfg) == Get(cfg, "DB_MAX_OVERFLOW", Max(0, BasePoolSize(cfg)))

\* Steps of initialize_connection_pool that can raise.
SetupFailures == {"instance_not_found", "credential_failure", "engine_failure"}

VARIABLES
  engine,       \* _engine: the request whose initialisation created it, or NoEngine
  password,     \* _postgres_password: the token id, 0 for None
  refreshers,   \* _refresh_loop tasks that are alive (_token_refresh_task is the last one created)
  issued,       \* tokens the identity service has issued so far (token ids 1..issued)
  refreshes,    \* wake-ups of _refresh_loop so far
  lastRefresh,  \* outcome of the last wake-up: "none", "ok", "failed"
  pool,         \* per engine: the QueuePool behind it
  disposing,    \* engines whose dispose() task is scheduled and has not run
  pc,           \* per request: "idle", "running", "done", "failed"
  req,          \* per request: its input
  sem,          \* per run: value of asyncio.Semaphore(concurrency_level)
  task,         \* per run: the _runner tasks, one per (query, scenario)
  report,       \* per run: the ConcurrencyTestReport counts
  setupFailed,  \* per request: initialize_connection_pool raised
  asked,        \* executions asked for by the requests that have started
  units,        \* per run: sum of execution_count over its (query, scenario) pairs
  all_results,  \* the list of QueryExecutionResult handed to the aggregation
  window,       \* test_start_time, test_end_time and concurrency_level of the aggregation
  aggregate,    \* the report fields the last aggregation produced
  advice,       \* the last call of _generate_recommendations: its inputs and its list
  pgService,    \* the PgbenchService object: target, principal and token
  pgConfig,     \* pgbench_config and the weights of the query scripts of a pgbench run
  pgRun,        \* the pgbench run: its stage, command, environment, subprocess and outcome
  call,         \* a call of a function without side effects: its name, arguments and return value
  runner,       \* the ConcurrencyTestRunner: position of run_scenario, self.workers, the pool
  worker,       \* per WorkloadWorker: its running flag and the position of its thread
  results_queue,\* the queue.Queue of the MetricsCollector
  collector     \* the MetricsCollector: collecting, results and the metrics calculated

svcVars == <<engine, password, refreshers, issued, refreshes, lastRefresh, pool, disposing>>
runVars == <<pc, req, sem, task, report, setupFailed, asked, units>>
reportVars == <<all_results, window, aggregate, advice>>
pgVars == <<pgService, pgConfig, pgRun>>
quickVars == <<runner, worker, results_queue, collector>>
toolVars == <<call, quickVars>>
vars == <<svcVars, runVars, reportVars, pgVars, toolVars>>
\* What the steps of a unit leave alone.
svcRest == <<engine, password, refreshers, issued, refreshes, lastRefresh, disposing>>
runRest == <<pc, req, report, setupFailed, asked, units, reportVars, pgVars, toolVars>>

\* No function is being called.
NoCall == [fn |-> "none"]
\* worker_id of the WorkloadWorker objects of a scenario: f"worker_{i}".
QuickWorkers == {"worker_0", "worker_1"}
\* ConcurrencyTestRunner.__init__: no collector, no workers, the pool not created.
NoRunner ==
  [at |-> "constructed", workers |-> {}, worker_threads |-> {}, pool |-> "none",
   scenario |-> [monitor |-> FALSE, ramp_down |-> FALSE]]
\* A WorkloadWorker that has not been constructed: no thread, running False.
NoWorker == [running |-> FALSE, thread |-> "none", result |-> 0]
\* metrics_collector = None.
NoCollector ==
  [collecting |-> FALSE, results |-> <<>>, metrics |-> [calculated |-> FALSE, results |-> <<>>]]
\* The quickstart runner is not in use and no function is being called.
ToolsIdle ==
  /\ call = NoCall
  /\ runner = NoRunner
  /\ worker = [w \in QuickWorkers |-> NoWorker]
  /\ results_queue = <<>>
  /\ collector = NoCollector

(***************************************************************************)
(* The connection pool behind an engine (sqlalchemy QueuePool as           *)
(* configured by create_async_engine).                                     *)
(***************************************************************************)
EmptyPool ==
  [pool_size |-> 0, max_overflow |-> 0, created |-> 0, idle |-> <<>>, out |-> 0,
   disposed |-> FALSE]

\* create_async_engine(url, pool_size=base_pool_size, max_overflow=max_overflow, ...):
\* tok is the token that is current when the engine is created.
NewPool(cfg, tok) ==
  [pool_size |-> BasePoolSize(cfg), max_overflow |-> MaxOverflow(cfg), created |-> tok,
   idle |-> <<>>, out |-> 0, disposed |-> FALSE]

PoolTotal(pl) == Len(pl.idle) + pl.out
PoolCapacity(pl) == pl.pool_size + pl.max_overflow
PoolExhausted(pl) == pl.idle = <<>> /\ PoolTotal(pl) >= PoolCapacity(pl)

\* A listener that hands out the token captured when the engine was created.
ProvideTokenAtCreation(e) == pool[e].created

\* The do_connect listener: the password a new physical connection of engine e
\* authenticates with.
ProvideToken(e) == password

\* A connection goes back to its pool: kept idle while the queue has room and the
\* pool has not been disposed of, closed otherwise.
ReturnConn(pl, c) ==
  [pl EXCEPT !.out = @ - 1,
             !.idle = IF ~pl.disposed /\ Len(@) < pl.pool_size THEN Append(@, c) ELSE @]

\* A release that is skipped when the body raised.
ReleaseOnSuccessOnly(pl, c, ok) == IF ok THEN ReturnConn(pl, c) ELSE pl

\* Leaving "async with self._engine.connect() as conn": the connection goes back
\* whether the body returned (ok) or raised.
ReleaseOnExit(pl, c, ok) == ReturnConn(pl, c)

\* A pool without an acquire timeout.
PoolTimeoutNever(pl) == FALSE

\* pool_timeout=pool_timeout: a unit that waits on an exhausted pool is timed out.
PoolTimeoutFires(pl) == PoolExhausted(pl)

(***************************************************************************)
(* Results and the report.                                                 *)
(***************************************************************************)
SuccessResult(p) == [query |-> p, success |-> TRUE, error_type |-> "None"]
FailedResult(p, etype) == [query |-> p, success |-> FALSE, error_type |-> etype]
\* The result that stands for a _runner task that raised (query_identifier "unknown").
UnknownResult == [query |-> 0, success |-> FALSE, error_type |-> "execution_error"]

\* _convert_ps_placeholders raises on parameters without a length.
ConversionRaises(sc) == sc.parameters = "scalar"

RunnerInit == [st |-> "waiting", results |-> <<>>, eng |-> NoEngine, conn |-> NoConn]

\* One repetition of a runner ends with result res: results.append(res), then the
\* next iteration of the loop or the end of the runner.
FinishUnit(t, sc, res) ==
  LET rs == Append(t.results, res)
  IN [st |-> IF Len(rs) >= sc.execution_count THEN "finished" ELSE "waiting",
      results |-> rs, eng |-> NoEngine, conn |-> NoConn]

\* The loop over nested_results after asyncio.gather(..., return_exceptions=True).
RECURSIVE AllResults(_, _)
AllResults(ts, i) ==
  IF i > Len(ts) THEN <<>>
  ELSE (IF ts[i].st = "raised" THEN <<UnknownResult>> ELSE ts[i].results)
       \o AllResults(ts, i + 1)

\* The counts of _generate_test_report.
GenerateTestReport(results) ==
  [total |-> Len(results),
   successful |-> Cardinality({i \in DOMAIN results : results[i].success}),
   failed |-> Cardinality({i \in DOMAIN results : ~results[i].success})]

(***************************************************************************)
(* The service and the endpoints.                                          *)
(***************************************************************************)
\* An initialisation that logs the error of a step and returns.
InitResultSwallowed(step) == "returned"

\* initialize_connection_pool returns True, or re-raises what a step raised.
InitResult(step) == IF step = "ok" THEN "returned" ELSE "raised"

\* generate_database_credential succeeded and its token was stored before `step`.
TokenStored(step) == step \in {"ok", "engine_failure"}

\* A _start_token_refresh that creates a task at every initialisation.
StartTokenRefreshAlways(n) == n + 1

\* _start_token_refresh: no new task while the current one is not done.
StartTokenRefresh(n) == IF n > 0 THEN n ELSE n + 1

\* close_connection_pool: schedules dispose() of the current engine and clears _engine.
CloseDisposing(eng, disp) == IF eng # NoEngine THEN disp \cup {eng} ELSE disp

RequestInputs ==
  [concurrency_level : 1..MaxConcurrency, scenarios : Workloads, pool_config : PoolConfigs]

\* Sum of execution_count over the scenarios of a workload.
RECURSIVE SumCounts(_, _)
SumCounts(scs, i) ==
  IF i > Len(scs) THEN 0 ELSE scs[i].execution_count + SumCounts(scs, i + 1)

NoInput == [concurrency_level |-> 0, scenarios |-> <<>>, pool_config |-> <<>>]

\* The aggregation and the pgbench runner before they are used.
NoWindow == [test_start_time |-> 0, test_end_time |-> 0, concurrency_level |-> 0]
NoAggregate == [calls |-> 0]
NoAdvice == [calls |-> 0]
NoPgService == [initialized |-> FALSE]
NoPgConfig == [config |-> <<>>, weights |-> <<>>]
NoPgRun == [stage |-> "idle"]

Init ==
  /\ engine = NoEngine
  /\ password = 0
  /\ refreshers = 0
  /\ issued = 0
  /\ refreshes = 0
  /\ lastRefresh = "none"
  /\ pool = [e \in Requests |-> EmptyPool]
  /\ disposing = {}
  /\ pc = [r \in Requests |-> "idle"]
  /\ req = [r \in Requests |-> NoInput]
  /\ sem = [r \in Requests |-> 0]
  /\ task = [r \in Requests |-> <<>>]
  /\ report = [r \in Requests |-> NoReport]
  /\ setupFailed = [r \in Requests |-> FALSE]
  /\ asked = 0
  /\ units = [r \in Requests |-> 0]
  /\ all_results = <<>>
  /\ window = NoWindow
  /\ aggregate = NoAggregate
  /\ advice = NoAdvice
  /\ pgService = NoPgService
  /\ pgConfig = NoPgConfig
  /\ pgRun = NoPgRun
  /\ ToolsIdle

\* One endpoint handler (execute_concurrency_test, run_uploaded_tests,
\* run_predefined_tests) from its start to its first suspension:
\* initialize_connection_pool, whose step `step` raises unless it is "ok", then
\* execute_concurrent_queries up to asyncio.gather, or the except branch.
EndpointStart(r, step, input) ==
  /\ pc[r] = "idle"
  /\ \A o \in ArrivesAfter(r) : pc[o] # "idle"
  /\ LET tok == issued + 1
         eng1 == IF step = "ok" THEN r ELSE engine
     IN /\ issued' = IF TokenStored(step) THEN tok ELSE issued
        /\ password' = IF TokenStored(step) THEN tok ELSE password
        /\ pool' = IF step = "ok"
                   THEN [pool EXCEPT ![r] = NewPool(input.pool_config, tok)]
                   ELSE pool
        /\ refreshers' = IF step = "ok" THEN StartTokenRefresh(refreshers) ELSE refreshers
        /\ setupFailed' = [setupFailed EXCEPT ![r] = (step # "ok")]
        /\ IF InitResult(step) = "returned" /\ eng1 # NoEngine
           THEN /\ engine' = eng1
                /\ pc' = [pc EXCEPT ![r] = "running"]
                /\ sem' = [sem EXCEPT ![r] = input.concurrency_level]
                /\ task' = [task EXCEPT ![r] = [p \in DOMAIN input.scenarios |-> RunnerInit]]
                /\ req' = [req EXCEPT ![r] = input]
                /\ UNCHANGED <<disposing, report>>
           ELSE /\ engine' = NoEngine
                /\ disposing' = CloseDisposing(eng1, disposing)
                /\ pc' = [pc EXCEPT ![r] = "failed"]
                /\ UNCHANGED <<req, sem, task, report>>
  /\ UNCHANGED <<refreshes, lastRefresh, reportVars, pgVars, toolVars>>

\* The inputs a new request can carry within the bound on executions.
InputUnits(input) == SumCounts(input.scenarios, 1)
InputsWithin == [n \in 0..MaxUnits |-> {input \in RequestInputs : InputUnits(input) <= n}]

RequestStarts(r) ==
  /\ pc[r] = "idle"
  /\ \E input \in InputsWithin[MaxUnits - asked] :
    /\ EndpointStart(r, "ok", input)
    /\ asked' = asked + InputUnits(input)
    /\ units' = [units EXCEPT ![r] = InputUnits(input)]

RequestSetupFails(r) ==
  /\ pc[r] = "idle"
  /\ \E input \in InputsWithin[MaxUnits - asked], step \in SetupFailures :
    /\ EndpointStart(r, step, input)
    /\ asked' = asked + (IF pc'[r] = "running" THEN InputUnits(input) ELSE 0)
    /\ units' = [units EXCEPT ![r] = IF pc'[r] = "running" THEN InputUnits(input) ELSE 0]

(***************************************************************************)
(* The units of a run: _runner and _execute_single_query_async.            *)
(***************************************************************************)
Pairs(r) == DOMAIN task[r]
Scenario(r, p) == req[r].scenarios[p]

\* A runner that enters without waiting for a permit.
AdmittedUngated(r, p) ==
  /\ pc[r] = "running"
  /\ p \in DOMAIN task[r]
  /\ task[r][p].st = "waiting"

\* A runner is at "async with sem" and the semaphore lets it in.
Admitted(r, p) ==
  /\ pc[r] = "running"
  /\ p \in Pairs(r)
  /\ task[r][p].st = "waiting"
  /\ sem[r] > 0

\* A unit waits in the pool's queue for a connection.
PoolWaiting(r, p) ==
  /\ pc[r] = "running"
  /\ p \in Pairs(r)
  /\ task[r][p].st = "poolwait"

\* The engine a unit connects through: self._engine when the unit started.
UnitEngine(r, p) == IF task[r][p].st = "poolwait" THEN task[r][p].eng ELSE engine

\* "if not self._engine: raise RuntimeError" - outside the try block, so the runner
\* task ends with the exception and the results it had collected are dropped.
UnitEngineMissing(r, p) ==
  /\ Admitted(r, p)
  /\ engine = NoEngine
  /\ task' = [task EXCEPT ![r][p] = [RunnerInit EXCEPT !.st = "raised"]]
  /\ UNCHANGED <<svcVars, runRest, sem>>

\* _convert_ps_placeholders raises inside the try block.
UnitConversionError(r, p) ==
  /\ Admitted(r, p)
  /\ engine # NoEngine
  /\ ConversionRaises(Scenario(r, p))
  /\ task' = [task EXCEPT ![r][p] = FinishUnit(@, Scenario(r, p), FailedResult(p, "TypeError"))]
  /\ UNCHANGED <<svcVars, runRest, sem>>

\* A unit enters self._engine.connect(): up to the first suspension the pool either
\* hands out an idle connection, or reserves a slot and opens a new physical
\* connection, or makes the unit wait for a connection to come back.
UnitEnters(r, p) ==
  /\ Admitted(r, p)
  /\ engine # NoEngine
  /\ ~ConversionRaises(Scenario(r, p))

\* The pool hands out an idle connection.
UnitCheckoutIdle(r, p) ==
  /\ UnitEnters(r, p) \/ PoolWaiting(r, p)
  /\ LET e == UnitEngine(r, p)
     IN /\ pool[e].idle # <<>>
        /\ task' = [task EXCEPT ![r][p].st = "executing", ![r][p].eng = e,
                                ![r][p].conn = Head(pool[e].idle)]
        /\ pool' = [pool EXCEPT ![e].idle = Tail(@), ![e].out = @ + 1]
  /\ sem' = [sem EXCEPT ![r] = IF PoolWaiting(r, p) THEN @ ELSE @ - 1]
  /\ UNCHANGED <<svcRest, runRest>>

\* The pool is below its capacity and opens a new physical connection, which
\* authenticates with the token the do_connect listener provides.
UnitConnectNew(r, p) ==
  /\ UnitEnters(r, p) \/ PoolWaiting(r, p)
  /\ LET e == UnitEngine(r, p)
     IN /\ pool[e].idle = <<>>
        /\ PoolTotal(pool[e]) < PoolCapacity(pool[e])
        /\ task' = [task EXCEPT ![r][p].st = "executing", ![r][p].eng = e,
                                ![r][p].conn = [auth |-> ProvideToken(e), at |-> issued]]
        /\ pool' = [pool EXCEPT ![e].out = @ + 1]
  /\ sem' = [sem EXCEPT ![r] = IF PoolWaiting(r, p) THEN @ ELSE @ - 1]
  /\ UNCHANGED <<svcRest, runRest>>

\* The pool is exhausted: the unit keeps its permit and waits, for pool_timeout at
\* most, for a connection to come back.
UnitWaitsForPool(r, p) ==
  /\ UnitEnters(r, p)
  /\ PoolExhausted(pool[engine])
  /\ task' = [task EXCEPT ![r][p].st = "poolwait", ![r][p].eng = engine]
  /\ sem' = [sem EXCEPT ![r] = @ - 1]
  /\ UNCHANGED <<svcVars, runRest>>

\* No connection came back within pool_timeout: the pool raises TimeoutError, which
\* is caught in _execute_single_query_async; "async with sem" releases the permit.
UnitPoolTimeout(r, p) ==
  /\ PoolWaiting(r, p)
  /\ PoolTimeoutFires(pool[task[r][p].eng])
  /\ task' = [task EXCEPT ![r][p] =
                 FinishUnit(@, Scenario(r, p), FailedResult(p, "TimeoutError"))]
  /\ sem' = [sem EXCEPT ![r] = @ + 1]
  /\ UNCHANGED <<svcVars, runRest>>

\* conn.execute returns or raises; leaving "async with self._engine.connect()"
\* gives the connection back on both paths, then the permit is released.
UnitComplete(r, p, ok) ==
  /\ pc[r] = "running"
  /\ p \in Pairs(r)
  /\ task[r][p].st = "executing"
  /\ LET e == task[r][p].eng
         res == IF ok THEN SuccessResult(p) ELSE FailedResult(p, "DBAPIError")
     IN /\ pool' = [pool EXCEPT ![e] = ReleaseOnExit(@, task[r][p].conn, ok)]
        /\ task' = [task EXCEPT ![r][p] = FinishUnit(@, Scenario(r, p), res)]
  /\ sem' = [sem EXCEPT ![r] = @ + 1]
  /\ UNCHANGED <<svcRest, runRest>>

UnitSucceeds(r, p) == UnitComplete(r, p, TRUE)
UnitQueryFails(r, p) == UnitComplete(r, p, FALSE)

\* asyncio.gather returns: the results are collected, the report is generated and
\* returned, and the endpoint calls close_connection_pool.
RunReturns(r) ==
  /\ pc[r] = "running"
  /\ \A p \in Pairs(r) : task[r][p].st \in {"finished", "raised"}
  /\ report' = [report EXCEPT ![r] = GenerateTestReport(AllResults(task[r], 1))]
  /\ pc' = [pc EXCEPT ![r] = "done"]
  /\ task' = [task EXCEPT ![r] = <<>>]
  /\ sem' = [sem EXCEPT ![r] = 0]
  /\ disposing' = CloseDisposing(engine, disposing)
  /\ engine' = NoEngine
  /\ req' = [req EXCEPT ![r] = NoInput]
  /\ UNCHANGED <<password, refreshers, issued, refreshes, lastRefresh, pool,
                 setupFailed, asked, units, reportVars, pgVars, toolVars>>

\* The task created by close_connection_pool runs engine.dispose(): the idle
\* connections are closed; connections that are checked out are closed on return.
EngineDispose(e) ==
  /\ e \in disposing
  /\ disposing' = disposing \ {e}
  /\ pool' = [pool EXCEPT ![e].idle = <<>>, ![e].disposed = TRUE, ![e].created = 0]
  /\ UNCHANGED <<engine, password, refreshers, issued, refreshes, lastRefresh, runVars,
                 reportVars, pgVars, toolVars>>

(***************************************************************************)
(* The background refresher: one wake-up of _refresh_loop after its sleep. *)
(***************************************************************************)
RefreshWake ==
  /\ refreshers > 0
  /\ refreshes < MaxRefresh

\* A refresh that also closes the idle connections of every pool.
RefreshSucceedsInvalidating ==
  /\ RefreshWake
  /\ issued' = issued + 1
  /\ password' = issued + 1
  /\ refreshes' = refreshes + 1
  /\ lastRefresh' = "ok"
  /\ pool' = [e \in Requests |-> [pool[e] EXCEPT !.idle = <<>>]]
  /\ UNCHANGED <<engine, refreshers, disposing, runVars, reportVars, pgVars, toolVars>>

\* generate_database_credential returns: the token cell is replaced.
RefreshSucceeds ==
  /\ RefreshWake
  /\ issued' = issued + 1
  /\ password' = issued + 1
  /\ refreshes' = refreshes + 1
  /\ lastRefresh' = "ok"
  /\ UNCHANGED <<engine, refreshers, pool, disposing, runVars, reportVars, pgVars, toolVars>>

\* A refresher whose loop ends with the first error.
RefreshFailsEndsLoop ==
  /\ RefreshWake
  /\ refreshes' = refreshes + 1
  /\ lastRefresh' = "failed"
  /\ refreshers' = refreshers - 1
  /\ UNCHANGED <<engine, password, issued, pool, disposing, runVars, reportVars, pgVars, toolVars>>

\* generate_database_credential raises: logged, the loop goes on.
RefreshFails ==
  /\ RefreshWake
  /\ refreshes' = refreshes + 1
  /\ lastRefresh' = "failed"
  /\ UNCHANGED <<engine, password, refreshers, issued, pool, disposing, runVars,
                 reportVars, pgVars, toolVars>>

Next ==
  \/ \E r \in Requests : RequestStarts(r)
  \/ \E r \in Requests : RequestSetupFails(r)
  \/ \E r \in Requests, p \in 1..MaxPairs : UnitEngineMissing(r, p)
  \/ \E r \in Requests, p \in 1..MaxPairs : UnitConversionError(r, p)
  \/ \E r \in Requests, p \in 1..MaxPairs : UnitCheckoutIdle(r, p)
  \/ \E r \in Requests, p \in 1..MaxPairs : UnitConnectNew(r, p)
  \/ \E r \in Requests, p \in 1..MaxPairs : UnitWaitsForPool(r, p)
  \/ \E r \in Requests, p \in 1..MaxPairs : UnitPoolTimeout(r, p)
  \/ \E r \in Requests, p \in 1..MaxPairs : UnitSucceeds(r, p)
  \/ \E r \in Requests, p \in 1..MaxPairs : UnitQueryFails(r, p)
  \/ \E r \in Requests : RunReturns(r)
  \/ \E e \in Requests : EngineDispose(e)
  \/ RefreshSucceeds
  \/ RefreshFails

Spec == Init /\ [][Next]_vars

\* The timers of the program fire: the sleep of the refresher loop ends, and a
\* wait on the pool ends with a connection or with the pool's timeout.  Queries
\* themselves are not assumed to end.
Refresh == RefreshSucceeds \/ RefreshFails
PoolWaitEnds(r, p) == UnitCheckoutIdle(r, p) \/ UnitConnectNew(r, p) \/ UnitPoolTimeout(r, p)

FairSpec ==
  /\ Spec
  /\ WF_vars(Refresh)
  /\ \A r \in Requests, p \in 1..MaxPairs : WF_vars(PoolWaiting(r, p) /\ PoolWaitEnds(r, p))
(***************************************************************************)
(* The aggregation of execution results into a report:                     *)
(* _generate_test_report and _generate_recommendations of the connection   *)
(* service, collect_execution_metrics of the metrics service.  Clock       *)
(* readings are whole seconds, durations whole milliseconds, and every     *)
(* quotient that Python holds as a float is an exact rational num/den.     *)
(***************************************************************************)
\* Last clock reading of an aggregated run.
MaxTime == 3
\* Longest list of results handed to the aggregation.
MaxResults == 3

Rat(n, d) == [num |-> n, den |-> d]
RatLt(a, b) == a.num * b.den < b.num * a.den
RatEq(a, b) == a.num * b.den = b.num * a.den

\* The literals of _generate_test_report and _generate_recommendations.
P95 == 95
P99 == 99
SuccessRateFloor == 95
AvgTimeCeilingMs == 5000
ThroughputFloor == 10
HighConcurrency == 50
HighConcurrencySuccessFloor == 99

\* test_start_time and test_end_time are read before the tasks are created and
\* after asyncio.gather has returned.
Windows ==
  {w \in [test_start_time : 1..MaxTime, test_end_time : 1..MaxTime,
          concurrency_level : {1, HighConcurrency + 1}] :
     w.test_start_time < w.test_end_time}

\* QueryExecutionResult as _execute_single_query_async builds it inside the run:
\* duration_ms = (end_time - start_time) * 1000 on success and on failure;
\* error_type is None on success and type(e).__name__ on failure.
QueryExecutionResult(s, a, b) ==
  [success |-> s, execution_start_time |-> a, execution_end_time |-> b,
   duration_ms |-> (b - a) * 1000, error_type |-> IF s THEN "None" ELSE "Exception"]

ResultsIn(w) ==
  {QueryExecutionResult(s, ab[1], ab[2]) :
     s \in BOOLEAN,
     ab \in {x \in (w.test_start_time..w.test_end_time) \X
                   (w.test_start_time..w.test_end_time) : x[1] <= x[2]}}

Successful(rs) == SelectSeq(rs, LAMBDA r : r.success)
FailedOnes(rs) == SelectSeq(rs, LAMBDA r : ~r.success)

\* execution_times taken from every result, failed ones included.
ExecutionTimesOfAll(rs) == [i \in DOMAIN rs |-> rs[i].duration_ms]

\* execution_times = [r.duration_ms for r in successful_results]
ExecutionTimes(rs) == [i \in DOMAIN Successful(rs) |-> Successful(rs)[i].duration_ms]

RECURSIVE SumOf(_)
SumOf(s) == IF s = <<>> THEN 0 ELSE Head(s) + SumOf(Tail(s))
MinOf(s) == CHOOSE x \in {s[i] : i \in DOMAIN s} : \A i \in DOMAIN s : x <= s[i]
MaxOf(s) == CHOOSE x \in {s[i] : i \in DOMAIN s} : \A i \in DOMAIN s : x >= s[i]

\* sorted(execution_times)
RECURSIVE InsertSorted(_, _)
InsertSorted(x, s) ==
  IF s = <<>> THEN <<x>>
  ELSE IF x <= Head(s) THEN <<x>> \o s
  ELSE <<Head(s)>> \o InsertSorted(x, Tail(s))
RECURSIVE Sorted(_)
Sorted(s) == IF s = <<>> THEN <<>> ELSE InsertSorted(Head(s), Sorted(Tail(s)))

\* int(len(sorted_times) * 0.95): the product is truncated (for the lengths of the
\* model the float product and the exact one have the same integer part).
PercentileIndex(n, pct) == (n * pct) \div 100

\* sorted_times[index] if index < len(sorted_times) else max_execution_time
\* (Python indexes from 0, a sequence from 1).
PercentileOf(sorted, pct) ==
  LET index == PercentileIndex(Len(sorted), pct)
  IN IF index < Len(sorted) THEN sorted[index + 1] ELSE MaxOf(sorted)

\* The latency statistics of _generate_test_report over execution_times.
LatencyStatistics(times) ==
  IF times # <<>>
  THEN [average_execution_time_ms |-> Rat(SumOf(times), Len(times)),
        min_execution_time_ms |-> MinOf(times),
        max_execution_time_ms |-> MaxOf(times),
        p95_execution_time_ms |-> PercentileOf(Sorted(times), P95),
        p99_execution_time_ms |-> PercentileOf(Sorted(times), P99)]
  ELSE [average_execution_time_ms |-> Rat(0, 1),
        min_execution_time_ms |-> 0,
        max_execution_time_ms |-> 0,
        p95_execution_time_ms |-> 0,
        p99_execution_time_ms |-> 0]

\* success_rate = successful_executions / total_queries if total_queries > 0 else 0
SuccessRate(rs) == IF Len(rs) > 0 THEN Rat(Len(Successful(rs)), Len(rs)) ELSE Rat(0, 1)

\* throughput = total_queries / total_duration if total_duration > 0 else 0
Throughput(total_queries, total_duration) ==
  IF total_duration > 0 THEN Rat(total_queries, total_duration) ELSE Rat(0, 1)

\* _generate_recommendations of the connection service; each message is named by
\* its opening words.
GenerateRecommendations(success_rate, avg_execution_time, throughput, concurrency_level) ==
  LET flags ==
        (IF RatLt(success_rate, Rat(SuccessRateFloor, 100))
         THEN <<"Success rate is below 95%">> ELSE <<>>)
        \o (IF RatLt(Rat(AvgTimeCeilingMs, 1), avg_execution_time)
            THEN <<"Average execution time is high">> ELSE <<>>)
        \o (IF RatLt(throughput, Rat(ThroughputFloor, 1))
            THEN <<"Throughput is low">> ELSE <<>>)
        \o (IF concurrency_level > HighConcurrency
               /\ RatLt(success_rate, Rat(HighConcurrencySuccessFloor, 100))
            THEN <<"High concurrency with low success rate">> ELSE <<>>)
  IN IF flags = <<>> THEN <<"Performance looks good">> ELSE flags

\* pool_metrics of _generate_test_report, read from self._engine when the report is
\* built: pool.size() is pool_size, pool.size() + pool.overflow() is the number of
\* connections the pool has open.
PoolMetrics(concurrency_level) ==
  [pool_size |-> IF engine # NoEngine THEN pool[engine].pool_size ELSE 0,
   max_connections |-> IF engine # NoEngine THEN PoolTotal(pool[engine]) ELSE 0,
   concurrency_level |-> concurrency_level]

\* _generate_test_report(test_id, test_start_time, test_end_time, concurrency_level, results)
ConcurrencyTestReport(w, rs) ==
  LET total_duration == w.test_end_time - w.test_start_time
      stats == LatencyStatistics(ExecutionTimes(rs))
      throughput == Throughput(Len(rs), total_duration)
  IN [total_duration_seconds |-> total_duration,
      concurrency_level |-> w.concurrency_level,
      total_queries_executed |-> Len(rs),
      successful_executions |-> Len(Successful(rs)),
      failed_executions |-> Len(FailedOnes(rs)),
      success_rate |-> SuccessRate(rs),
      latency |-> stats,
      throughput_queries_per_second |-> throughput,
      connection_pool_metrics |-> PoolMetrics(w.concurrency_level),
      recommendations |->
        GenerateRecommendations(SuccessRate(rs), stats.average_execution_time_ms,
                                throughput, w.concurrency_level)]

\* _calculate_percentile of the metrics service: linear interpolation between the
\* two samples around (percentile / 100) * (len - 1).
CalculatePercentile(sorted, percentile) ==
  IF sorted = <<>> THEN Rat(0, 1)
  ELSE LET scaled == percentile * (Len(sorted) - 1)
           lower == sorted[(scaled \div 100) + 1]
       IN IF scaled % 100 = 0 THEN Rat(lower, 1)
          ELSE Rat(100 * lower + (sorted[(scaled \div 100) + 2] - lower) * (scaled % 100), 100)

\* error_types of _analyze_errors after the failed results rs: a dict keeps its
\* keys in the order of their first insertion.
RECURSIVE ErrorTypes(_)
ErrorTypes(rs) ==
  IF rs = <<>> THEN <<>>
  ELSE LET before == ErrorTypes(SubSeq(rs, 1, Len(rs) - 1))
           error_type == IF rs[Len(rs)].error_type # "None" THEN rs[Len(rs)].error_type
                         ELSE "unknown"
       IN IF \E i \in DOMAIN before : before[i][1] = error_type
          THEN [i \in DOMAIN before |->
                  IF before[i][1] = error_type THEN <<error_type, before[i][2] + 1>>
                  ELSE before[i]]
          ELSE Append(before, <<error_type, 1>>)

\* max(items, key=lambda x: x[1]): the first item, in the order of items, whose
\* count no item exceeds.
MaxByCount(items) ==
  items[CHOOSE i \in DOMAIN items :
          /\ \A j \in DOMAIN items : items[j][2] <= items[i][2]
          /\ \A j \in 1..(i - 1) : items[j][2] < items[i][2]]

\* _analyze_errors(failed_results)
AnalyzeErrors(failed_results) ==
  IF failed_results = <<>> THEN [total_errors |-> 0, most_common_error |-> "None"]
  ELSE [total_errors |-> Len(failed_results),
        most_common_error |-> MaxByCount(ErrorTypes(failed_results))[1]]

\* _generate_recommendations of the metrics service; None is written "None".
MetricsGenerateRecommendations(success_rate, avg_execution_time, throughput, error_analysis) ==
  LET flags ==
        (IF RatLt(success_rate, Rat(SuccessRateFloor, 100))
         THEN <<"Success rate is below 95%">> ELSE <<>>)
        \o (IF RatLt(success_rate, Rat(99, 100)) /\ error_analysis.total_errors > 0
               /\ error_analysis.most_common_error # "None"
            THEN <<"Most common error is '" \o error_analysis.most_common_error \o "'">>
            ELSE <<>>)
        \o (IF RatLt(Rat(AvgTimeCeilingMs, 1), avg_execution_time)
            THEN <<"Average execution time is high">> ELSE <<>>)
        \o (IF RatLt(Rat(10000, 1), avg_execution_time)
            THEN <<"Average execution time is very high">> ELSE <<>>)
        \o (IF RatLt(throughput, Rat(ThroughputFloor, 1))
            THEN <<"Throughput is low">> ELSE <<>>)
        \o (IF RatLt(Rat(100, 1), throughput)
            THEN <<"High throughput achieved!">> ELSE <<>>)
        \o (IF ~RatLt(success_rate, Rat(99, 100)) /\ RatLt(avg_execution_time, Rat(1000, 1))
               /\ RatLt(Rat(50, 1), throughput)
            THEN <<"Excellent performance!">> ELSE <<>>)
  IN IF flags = <<>> THEN <<"Performance looks good">> ELSE flags

\* collect_execution_metrics of the metrics service: the span of the run is taken
\* from the results themselves.
CollectExecutionMetrics(rs) ==
  IF rs = <<>> THEN [raised |-> "ValueError"]
  ELSE LET times == ExecutionTimes(rs)
           test_start_time == MinOf([i \in DOMAIN rs |-> rs[i].execution_start_time])
           test_end_time == MaxOf([i \in DOMAIN rs |-> rs[i].execution_end_time])
           total_duration == IF test_start_time # 0 /\ test_end_time # 0
                             THEN test_end_time - test_start_time ELSE 0
       IN [raised |-> "None",
           total_duration_seconds |-> total_duration,
           total_queries_executed |-> Len(rs),
           successful_executions |-> Len(Successful(rs)),
           failed_executions |-> Len(FailedOnes(rs)),
           success_rate |-> SuccessRate(rs),
           recommendations |->
             MetricsGenerateRecommendations(
               SuccessRate(rs),
               IF times # <<>> THEN Rat(SumOf(times), Len(times)) ELSE Rat(0, 1),
               Throughput(Len(rs), total_duration), AnalyzeErrors(FailedOnes(rs))),
           latency |->
             [average_execution_time_ms |->
                IF times # <<>> THEN Rat(SumOf(times), Len(times)) ELSE Rat(0, 1),
              min_execution_time_ms |-> IF times # <<>> THEN MinOf(times) ELSE 0,
              max_execution_time_ms |-> IF times # <<>> THEN MaxOf(times) ELSE 0,
              p95_execution_time_ms |-> CalculatePercentile(Sorted(times), P95),
              p99_execution_time_ms |-> CalculatePercentile(Sorted(times), P99)],
           throughput_queries_per_second |-> Throughput(Len(rs), total_duration)]

\* One aggregation of the list rs by both services.
Aggregation(w, rs) ==
  [calls |-> 1, service |-> ConcurrencyTestReport(w, rs), metrics |-> CollectExecutionMetrics(rs)]

\* The aggregator starts on a list without results, with the engine of a run in
\* place and no connection opened yet.
ReportInit ==
  /\ engine = "r1"
  /\ password = 1
  /\ refreshers = 1
  /\ issued = 1
  /\ refreshes = 0
  /\ lastRefresh = "none"
  /\ \E cfg \in PoolConfigs :
       pool = [e \in Requests |-> IF e = "r1" THEN NewPool(cfg, 1) ELSE EmptyPool]
  /\ disposing = {}
  /\ pc = [r \in Requests |-> IF r = "r1" THEN "running" ELSE "idle"]
  /\ req = [r \in Requests |-> NoInput]
  /\ sem = [r \in Requests |-> 0]
  /\ task = [r \in Requests |-> <<>>]
  /\ report = [r \in Requests |-> NoReport]
  /\ setupFailed = [r \in Requests |-> FALSE]
  /\ asked = 0
  /\ units = [r \in Requests |-> 0]
  /\ all_results = <<>>
  /\ window \in Windows
  /\ aggregate = NoAggregate
  /\ advice = NoAdvice
  /\ pgService = NoPgService
  /\ pgConfig = NoPgConfig
  /\ pgRun = NoPgRun
  /\ ToolsIdle

reportRest ==
  <<password, refreshers, issued, refreshes, lastRefresh, runVars, window, advice, pgVars, toolVars>>

\* The list rs is aggregated.
Aggregate(rs) ==
  /\ all_results' = rs
  /\ aggregate' = Aggregation(window, rs)
  /\ UNCHANGED <<engine, pool, disposing, reportRest>>

\* A result is added to the list and the list is aggregated; a successful result
\* comes from a unit that held a connection of the pool.
AggregateAppended ==
  /\ Len(all_results) < MaxResults
  /\ \E res \in ResultsIn(window) :
       /\ IF res.success /\ engine # NoEngine THEN PoolTotal(pool[engine]) > 0 ELSE TRUE
       /\ Aggregate(Append(all_results, res))

\* A result is taken out of the list and the list is aggregated.
AggregateWithout ==
  \E i \in DOMAIN all_results :
    Aggregate([j \in 1..(Len(all_results) - 1) |->
                 IF j < i THEN all_results[j] ELSE all_results[j + 1]])

\* A failed result of the list is replaced by another failed result and the list
\* is aggregated.
AggregateChanged ==
  \E i \in DOMAIN all_results, res \in ResultsIn(window) :
    /\ ~all_results[i].success
    /\ ~res.success
    /\ res # all_results[i]
    /\ Aggregate([all_results EXCEPT ![i] = res])

\* The same list is aggregated once more.
AggregateAgain ==
  /\ aggregate # NoAggregate
  /\ Aggregate(all_results)

\* A unit of the run opens a connection and gives it back before the report is built.
AggregatorPoolOpens ==
  /\ engine # NoEngine
  /\ PoolTotal(pool[engine]) < PoolCapacity(pool[engine])
  /\ pool' = [pool EXCEPT ![engine] =
                ReturnConn([@ EXCEPT !.out = @ + 1], [auth |-> ProvideToken(engine), at |-> issued])]
  /\ UNCHANGED <<engine, disposing, all_results, aggregate, reportRest>>

\* Another request calls close_connection_pool before the report is built.
AggregatorEngineCloses ==
  /\ engine # NoEngine
  /\ disposing' = CloseDisposing(engine, disposing)
  /\ engine' = NoEngine
  /\ UNCHANGED <<pool, all_results, aggregate, reportRest>>

ReportNext ==
  \/ AggregateAppended
  \/ AggregateWithout
  \/ AggregateChanged
  \/ AggregateAgain
  \/ AggregatorPoolOpens
  \/ AggregatorEngineCloses

ReportSpec == ReportInit /\ [][ReportNext]_vars

\* Arguments of _generate_recommendations on both sides of each threshold.
SuccessRates ==
  {Rat(n, 100) : n \in {0, SuccessRateFloor - 1, SuccessRateFloor,
                        HighConcurrencySuccessFloor - 1, HighConcurrencySuccessFloor, 100}}
AvgTimes == {Rat(ms, 1) : ms \in {0, AvgTimeCeilingMs, AvgTimeCeilingMs + 1}}
Throughputs == {Rat(q, 10) : q \in {0, 10 * ThroughputFloor - 1, 10 * ThroughputFloor, 2000}}
ConcurrencyLevels == {1, HighConcurrency, HighConcurrency + 1}

RecommendCalls ==
  [calls : {0}, success_rate : SuccessRates, avg_execution_time : AvgTimes,
   throughput : Throughputs, concurrency_level : ConcurrencyLevels,
   error_analysis : {[total_errors |-> 0, most_common_error |-> "None"],
                     [total_errors |-> 1, most_common_error |-> "Exception"]},
   service : {<<>>}, metrics : {<<>>}]

RecommendInit ==
  /\ engine = NoEngine
  /\ password = 0
  /\ refreshers = 0
  /\ issued = 0
  /\ refreshes = 0
  /\ lastRefresh = "none"
  /\ pool = [e \in Requests |-> EmptyPool]
  /\ disposing = {}
  /\ pc = [r \in Requests |-> "idle"]
  /\ req = [r \in Requests |-> NoInput]
  /\ sem = [r \in Requests |-> 0]
  /\ task = [r \in Requests |-> <<>>]
  /\ report = [r \in Requests |-> NoReport]
  /\ setupFailed = [r \in Requests |-> FALSE]
  /\ asked = 0
  /\ units = [r \in Requests |-> 0]
  /\ all_results = <<>>
  /\ window = NoWindow
  /\ aggregate = NoAggregate
  /\ advice \in RecommendCalls
  /\ pgService = NoPgService
  /\ pgConfig = NoPgConfig
  /\ pgRun = NoPgRun
  /\ ToolsIdle

\* Both services turn the drawn metrics into their lists of recommendations.
Recommend ==
  /\ advice.calls = 0
  /\ advice' =
       [advice EXCEPT
          !.calls = 1,
          !.service = GenerateRecommendations(advice.success_rate, advice.avg_execution_time,
                                              advice.throughput, advice.concurrency_level),
          !.metrics = MetricsGenerateRecommendations(advice.success_rate,
                                                     advice.avg_execution_time,
                                                     advice.throughput, advice.error_analysis)]
  /\ UNCHANGED <<svcVars, runVars, all_results, window, aggregate, pgVars, toolVars>>

RecommendNext == Recommend

RecommendSpec == RecommendInit /\ [][RecommendNext]_vars

(***************************************************************************)
(* The pgbench backend (PgbenchService): one benchmark is one pgbench      *)
(* subprocess, its connection data passed through the environment.         *)
(* Latencies are exact rationals of milliseconds; a Python dict is a       *)
(* function on its keys; an f-string is the sequence of its parts.         *)
(***************************************************************************)
\* Bounds of the pgbench model: the weights of the uploaded scripts.
MaxWeight == 2

\* The literals of _build_pgbench_command and _parse_pgbench_output.
DefaultClients == 8
DefaultJobsCap == 8
DefaultDurationSeconds == 30
Z95Thousandths == 1645
Z99Thousandths == 2326

\* Python's None and the empty dict.
PyNone == [none |-> TRUE]
EmptyDict == [k \in {} |-> 0]

\* The tokens generate_database_credential hands out.
PgTokens == {"token-a", "token-b"}

\* The service after initialize_connection, holding token t.
InitializedPgbenchService(t) ==
  [initialized |-> TRUE,
   read_write_dns |-> "instance.database.cloud.databricks.com",
   _database |-> "databricks_postgres",
   user_name |-> "user@example.com",
   _postgres_password |-> t]

\* The pgbench_config dicts a caller can pass: every key may be missing.
PgbenchConfigs ==
  LET ClientsChoices ==
        {EmptyDict, [clients |-> 4], [clients |-> 16], [clients |-> 4, jobs |-> 2],
         [clients |-> 4, jobs |-> 8]}
      DurationChoices == {EmptyDict, [duration_seconds |-> 0], [duration_seconds |-> 60]}
      TransactionsChoices == {EmptyDict, [transactions_per_client |-> 100]}
      ReportingChoices ==
        {EmptyDict, [per_statement_latency |-> FALSE, detailed_logging |-> FALSE]}
      OtherChoices ==
        {EmptyDict,
         [protocol |-> "binary"],
         [progress_interval |-> 5, protocol |-> "simple", target_tps |-> 50,
          connect_per_transaction |-> TRUE]}
  IN {a @@ b @@ c @@ d @@ e :
        a \in ClientsChoices, b \in DurationChoices, c \in TransactionsChoices,
        d \in ReportingChoices, e \in OtherChoices}

\* The request bodies of run_pgbench_uploaded_tests (a plain dict).
PgbenchTestRequests ==
  {EmptyDict, [pgbench_clients |-> 4], [pgbench_clients |-> 4, pgbench_jobs |-> 2],
   [pgbench_clients |-> 16, pgbench_duration |-> 60]}

\* The pgbench_config dict run_pgbench_uploaded_tests builds from a request.
EndpointPgbenchConfig(test_request) ==
  [clients |-> Get(test_request, "pgbench_clients", 8),
   jobs |-> Get(test_request, "pgbench_jobs", 8),
   duration_seconds |-> Get(test_request, "pgbench_duration", 30),
   progress_interval |-> Get(test_request, "pgbench_progress_interval", 5),
   protocol |-> Get(test_request, "pgbench_protocol", "prepared"),
   per_statement_latency |-> Get(test_request, "pgbench_per_statement_latency", TRUE),
   detailed_logging |-> Get(test_request, "pgbench_detailed_logging", TRUE),
   connect_per_transaction |-> Get(test_request, "pgbench_connect_per_transaction", FALSE)]

\* The weights of the queries, one per uploaded script.
QueryWeights == {<<1>>, <<MaxWeight, 1>>}

\* config.get(key) is truthy: the key is there and its number is not 0.
Configured(config, key) == key \in DOMAIN config /\ config[key] # 0

\* PgbenchConfig's validation, run when the report is built around the dict.
ValidPgbenchConfig(config) ==
  /\ "clients" \in DOMAIN config /\ config.clients \in 1..1000
  /\ "jobs" \in DOMAIN config /\ config.jobs \in 1..100
  /\ config.jobs <= config.clients
  /\ "duration_seconds" \in DOMAIN config => config.duration_seconds \in 1..3600
  /\ "transactions_per_client" \in DOMAIN config => config.transactions_per_client >= 1
  /\ "progress_interval" \in DOMAIN config => config.progress_interval \in 1..60
  /\ "protocol" \in DOMAIN config => config.protocol \in {"simple", "extended", "prepared"}
  /\ "target_tps" \in DOMAIN config => config.target_tps >= 1

\* _write_query_scripts: one file query_<i>.sql per query, with its weight.
WriteQueryScripts(weights, workdir) ==
  [i \in DOMAIN weights |->
     [script_path |-> workdir \o "/query_" \o ToString(i - 1) \o ".sql",
      weight |-> weights[i]]]

\* "-f script_path" once per unit of weight.
RECURSIVE Repeated(_, _)
Repeated(arguments, times) ==
  IF times <= 0 THEN <<>> ELSE arguments \o Repeated(arguments, times - 1)

\* Every script registered once, whatever its weight.
ScriptArgumentsOnce(script_files) ==
  IF script_files = <<>> THEN <<>>
  ELSE <<"-f", Head(script_files).script_path>>
         \o [i \in 1..(2 * (Len(script_files) - 1)) |->
              IF i % 2 = 1 THEN "-f" ELSE script_files[1 + i \div 2].script_path]

RECURSIVE ScriptArguments(_)
ScriptArguments(script_files) ==
  IF script_files = <<>> THEN <<>>
  ELSE Repeated(<<"-f", Head(script_files).script_path>>, Head(script_files).weight)
         \o ScriptArguments(Tail(script_files))

\* The run-length option with both bounds emitted when both are configured.
RunLengthOptionBoth(config) ==
  (IF Configured(config, "duration_seconds")
   THEN <<"-T", ToString(config.duration_seconds)>> ELSE <<>>)
  \o (IF Configured(config, "transactions_per_client")
      THEN <<"-t", ToString(config.transactions_per_client)>> ELSE <<>>)

\* The time or transaction configuration of _build_pgbench_command.
RunLengthOption(config) ==
  IF Configured(config, "duration_seconds")
  THEN <<"-T", ToString(config.duration_seconds)>>
  ELSE IF Configured(config, "transactions_per_client")
       THEN <<"-t", ToString(config.transactions_per_client)>>
       ELSE <<"-T", ToString(DefaultDurationSeconds)>>

\* _build_pgbench_command; self is the service, which the code does not read.
BuildPgbenchCommand(self, config, script_files) ==
  LET clients == Get(config, "clients", DefaultClients)
      jobs == Get(config, "jobs", IF clients <= DefaultJobsCap THEN clients ELSE DefaultJobsCap)
      protocol == Get(config, "protocol", "prepared")
  IN <<"pgbench", "-n", "-c", ToString(clients), "-j", ToString(jobs)>>
     \o RunLengthOption(config)
     \o (IF Configured(config, "progress_interval")
         THEN <<"-P", ToString(config.progress_interval)>> ELSE <<>>)
     \o (IF protocol \in {"simple", "extended", "prepared"} THEN <<"-M", protocol>> ELSE <<>>)
     \o (IF Configured(config, "target_tps")
         THEN <<"-R", ToString(config.target_tps)>> ELSE <<>>)
     \o (IF Get(config, "per_statement_latency", TRUE) THEN <<"-r">> ELSE <<>>)
     \o (IF Get(config, "detailed_logging", TRUE) THEN <<"-l">> ELSE <<>>)
     \o (IF Get(config, "connect_per_transaction", FALSE) THEN <<"-C">> ELSE <<>>)
     \o ScriptArguments(script_files)

\* os.environ of the server process.
ParentEnviron ==
  [PATH |-> "/usr/bin", PGSSLMODE |-> "disable", PGPASSWORD |-> "stale"]

\* The environment without the forced TLS mode.
BuildEnvironmentInherited(self) ==
  [PGHOST |-> self.read_write_dns,
   PGPORT |-> "5432",
   PGDATABASE |-> self._database,
   PGUSER |-> self.user_name,
   PGPASSWORD |-> self._postgres_password] @@ ParentEnviron

\* _build_environment: os.environ.copy() updated with the connection data.
BuildEnvironment(self) ==
  [PGHOST |-> self.read_write_dns,
   PGPORT |-> "5432",
   PGDATABASE |-> self._database,
   PGUSER |-> self.user_name,
   PGPASSWORD |-> self._postgres_password,
   PGSSLMODE |-> "require"] @@ ParentEnviron

\* What a pgbench process can print: a sequence of lines, each of one kind.
Line(kind, value) == [kind |-> kind, value |-> value]
Stdouts ==
  LET SummaryLines ==
        <<Line("tps", Rat(50, 1)), Line("latency average", Rat(100, 1)),
          Line("latency stddev", Rat(20, 1))>>
  IN {<<>>,
      <<Line("tps", Rat(50, 1)), Line("latency average", Rat(100, 1))>>,
      SummaryLines,
      <<Line("progress", Rat(5, 1))>> \o SummaryLines
        \o <<Line("95th percentile", Rat(130, 1)), Line("99th percentile", Rat(150, 1)),
             Line("statement", Rat(1, 10))>>}
Stderrs == {"connection to server failed", "FATAL: password authentication failed"}
\* The last column of the pgbench_log.* files, in microseconds.
LogFiles == {<<>>, <<30, 10, 20>>}

\* re.search(pattern, stdout): the first line of the kind, if any.
Matches(stdout, kind) == \E i \in DOMAIN stdout : stdout[i].kind = kind
FirstMatch(stdout, kind) ==
  stdout[CHOOSE i \in DOMAIN stdout :
           /\ stdout[i].kind = kind
           /\ \A j \in DOMAIN stdout : stdout[j].kind = kind => i <= j].value
AllMatches(stdout, kind) == SelectSeq(stdout, LAMBDA l : l.kind = kind)

\* _parse_transaction_logs: the last column of each line, in microseconds,
\* becomes a latency in milliseconds.
ParseTransactionLogs(log_file) == [i \in DOMAIN log_file |-> Rat(log_file[i], 1000)]

\* np.percentile(latencies, p) with p in thousandths of the whole: linear
\* interpolation between the two closest ranks of the sorted latencies (which
\* share the denominator ParseTransactionLogs gave them).
NumpyPercentile(latencies, permille) ==
  LET sorted == Sorted([i \in DOMAIN latencies |-> latencies[i].num])
      den == latencies[1].den
      scaled == permille * (Len(sorted) - 1)
      lower == sorted[(scaled \div 1000) + 1]
  IN IF scaled % 1000 = 0 THEN Rat(lower, den)
     ELSE Rat(1000 * lower + (sorted[(scaled \div 1000) + 2] - lower) * (scaled % 1000),
              1000 * den)

\* _calculate_percentiles.
PgbenchCalculatePercentiles(latencies) ==
  IF latencies = <<>> THEN EmptyDict
  ELSE ("p50" :> NumpyPercentile(latencies, 500))
         @@ ("p95" :> NumpyPercentile(latencies, 950))
         @@ ("p99" :> NumpyPercentile(latencies, 990))
         @@ ("p99.9" :> NumpyPercentile(latencies, 999))

\* mean + z * stddev for z given in thousandths.
NormalEstimate(avg_lat, stddev_lat, z) ==
  Rat(1000 * avg_lat.num * stddev_lat.den + z * stddev_lat.num * avg_lat.den,
      1000 * avg_lat.den * stddev_lat.den)

\* _parse_pgbench_output, assignment by assignment; result is the finished
\* process (args, stdout), logs the pgbench_log.* file of the work directory.
ParsePgbenchOutput(result, logs) ==
  LET stdout == result.stdout
      args == {result.args[i] : i \in DOMAIN result.args}
      parsed0 == [tps |-> PyNone, latencies |-> <<>>, percentiles |-> EmptyDict,
                  progress_reports |-> <<>>, per_statement_stats |-> <<>>]
      parsed1 == IF Matches(stdout, "tps")
                 THEN [parsed0 EXCEPT !.tps = FirstMatch(stdout, "tps")] ELSE parsed0
      parsed2 == IF Matches(stdout, "latency average")
                 THEN [average_latency |-> FirstMatch(stdout, "latency average")] @@ parsed1
                 ELSE parsed1
      parsed3 == IF Matches(stdout, "latency stddev")
                 THEN [latency_stddev |-> FirstMatch(stdout, "latency stddev")] @@ parsed2
                 ELSE parsed2
      parsed4 == IF Matches(stdout, "95th percentile") \/ Matches(stdout, "99th percentile")
                 THEN [parsed3 EXCEPT !.percentiles =
                         (IF Matches(stdout, "95th percentile")
                          THEN [p95 |-> FirstMatch(stdout, "95th percentile")] ELSE EmptyDict)
                         @@ (IF Matches(stdout, "99th percentile")
                             THEN [p99 |-> FirstMatch(stdout, "99th percentile")]
                             ELSE EmptyDict)]
                 ELSE parsed3
      parsed5 == IF "-r" \in args
                 THEN [parsed4 EXCEPT !.per_statement_stats = AllMatches(stdout, "statement")]
                 ELSE parsed4
      latencies == ParseTransactionLogs(logs)
      parsed6 == IF "-l" \in args
                 THEN IF latencies # <<>>
                      THEN [parsed5 EXCEPT !.latencies = latencies,
                                           !.percentiles = PgbenchCalculatePercentiles(latencies)]
                      ELSE parsed5
                 ELSE parsed5
      parsed7 == IF /\ "percentiles" \notin DOMAIN parsed6
                    /\ "average_latency" \in DOMAIN parsed6
                    /\ "latency_stddev" \in DOMAIN parsed6
                    /\ parsed6.average_latency.num # 0
                    /\ parsed6.latency_stddev.num # 0
                 THEN [percentiles |->
                         [p95 |-> NormalEstimate(parsed6.average_latency,
                                                 parsed6.latency_stddev, Z95Thousandths),
                          p99 |-> NormalEstimate(parsed6.average_latency,
                                                 parsed6.latency_stddev, Z99Thousandths)]]
                      @@ parsed6
                 ELSE parsed6
  IN [parsed7 EXCEPT !.progress_reports = AllMatches(stdout, "progress")]

\* PgbenchService._generate_recommendations.
PgbenchRecommendations(parsed_results, config) ==
  LET tps == parsed_results.tps
      has_tps == tps # PyNone /\ tps.num # 0
      has_latency == "average_latency" \in DOMAIN parsed_results
                       /\ parsed_results.average_latency.num # 0
      clients == Get(config, "clients", 1)
      percentiles == parsed_results.percentiles
      found ==
        (IF has_tps /\ RatLt(tps, Rat(100, 1)) THEN <<"Low TPS detected">> ELSE <<>>)
        \o (IF has_latency /\ RatLt(Rat(100, 1), parsed_results.average_latency)
            THEN <<"High average latency">> ELSE <<>>)
        \o (IF clients > 50 /\ has_tps /\ RatLt(tps, Rat(2 * clients, 1))
            THEN <<"High client count with low per-client TPS">> ELSE <<>>)
        \o (IF /\ "p95" \in DOMAIN percentiles /\ percentiles.p95.num # 0
               /\ "p50" \in DOMAIN percentiles /\ percentiles.p50.num # 0
               /\ RatLt(Rat(5 * percentiles.p50.num, percentiles.p50.den), percentiles.p95)
            THEN <<"High latency variance detected">> ELSE <<>>)
  IN IF found = <<>> THEN <<"Performance looks good">> ELSE found

\* _generate_pgbench_report: the fields of PgbenchTestReport (the clock
\* readings are left out).
GeneratePgbenchReport(pgbench_config, raw_output, parsed_results, weights) ==
  [pgbench_config |-> pgbench_config,
   queries_tested |-> Len(weights),
   tps |-> parsed_results.tps,
   average_latency_ms |-> Get(parsed_results, "average_latency", PyNone),
   latency_stddev_ms |-> Get(parsed_results, "latency_stddev", PyNone),
   latency_percentiles |-> Get(parsed_results, "percentiles", EmptyDict),
   per_statement_stats |-> parsed_results.per_statement_stats,
   progress_reports |-> parsed_results.progress_reports,
   execution_result |-> [return_code |-> raw_output.returncode,
                         stdout |-> raw_output.stdout,
                         stderr |-> raw_output.stderr],
   recommendations |-> PgbenchRecommendations(parsed_results, pgbench_config)]

\* The message without the captured stderr.
ExecutionFailedMessageBare(result) == <<"Pgbench execution failed: ">>

\* f"Pgbench execution failed: {result.stderr}".
ExecutionFailedMessage(result) == <<"Pgbench execution failed: ", result.stderr>>

\* f"Pgbench test failed: {e}" of execute_pgbench_test's except branch.
TestFailedMessage(e) == <<"Pgbench test failed: ">> \o e

\* A request reaches a PgbenchService: initialised with some token or not,
\* with some configuration and scripts; nothing else of the server moves.
PgbenchInit ==
  /\ engine = NoEngine
  /\ password = 0
  /\ refreshers = 0
  /\ issued = 0
  /\ refreshes = 0
  /\ lastRefresh = "none"
  /\ disposing = {}
  /\ pool = [e \in Requests |-> EmptyPool]
  /\ sem = [r \in Requests |-> 0]
  /\ task = [r \in Requests |-> <<>>]
  /\ pc = [r \in Requests |-> "idle"]
  /\ req = [r \in Requests |-> NoInput]
  /\ report = [r \in Requests |-> NoReport]
  /\ setupFailed = [r \in Requests |-> FALSE]
  /\ asked = 0
  /\ units = [r \in Requests |-> 0]
  /\ all_results = <<>>
  /\ window = NoWindow
  /\ aggregate = NoAggregate
  /\ advice = NoAdvice
  /\ pgService \in {NoPgService} \cup {InitializedPgbenchService(t) : t \in PgTokens}
  /\ pgConfig \in
       {[config |-> c, weights |-> w] :
          c \in PgbenchConfigs \cup {EndpointPgbenchConfig(rq) : rq \in PgbenchTestRequests},
          w \in QueryWeights}
  /\ pgRun = NoPgRun
  /\ ToolsIdle

\* execute_pgbench_test on a service that was never initialised.
PgbenchNotInitialized ==
  /\ pgRun.stage = "idle"
  /\ ~pgService.initialized
  /\ pgRun' = [stage |-> "failed", error |-> <<"Pgbench service not initialized">>]
  /\ UNCHANGED <<pgService, pgConfig, svcVars, runVars, reportVars, toolVars>>

\* execute_pgbench_test up to "await process.communicate()": pgbench is
\* found, the scripts are written, command and environment are built and the
\* subprocess is started.
PgbenchStarts ==
  /\ pgRun.stage = "idle"
  /\ pgService.initialized
  /\ \E pgbench_path \in {"/tmp/pgbench", "pgbench"} :
       LET script_files == WriteQueryScripts(pgConfig.weights, "/tmp/pgbench_work")
           cmd == BuildPgbenchCommand(pgService, pgConfig.config, script_files)
       IN pgRun' = [stage |-> "communicate",
                    process |-> "running",
                    cmd |-> [cmd EXCEPT ![1] = pgbench_path],
                    built |-> cmd,
                    script_files |-> script_files,
                    env |-> BuildEnvironment(pgService)]
  /\ UNCHANGED <<pgService, pgConfig, svcVars, runVars, reportVars, toolVars>>

\* The subprocess exits with code 0: the output is parsed and the report
\* built; building it validates the configuration.
PgbenchExitsZero ==
  /\ pgRun.stage = "communicate"
  /\ pgRun.process = "running"
  /\ \E stdout \in Stdouts, log_file \in LogFiles :
       LET logs == IF "-l" \in {pgRun.cmd[i] : i \in DOMAIN pgRun.cmd} THEN log_file ELSE <<>>
           result == [args |-> pgRun.cmd, returncode |-> 0, stdout |-> stdout, stderr |-> ""]
           parsed == ParsePgbenchOutput(result, logs)
       IN pgRun' =
            IF ValidPgbenchConfig(pgConfig.config)
            THEN [pgRun EXCEPT !.stage = "returned", !.process = "exited"]
                   @@ [result |-> result, logs |-> logs, parsed |-> parsed,
                       report |-> GeneratePgbenchReport(pgConfig.config, result, parsed,
                                                       pgConfig.weights)]
            ELSE [pgRun EXCEPT !.stage = "failed", !.process = "exited"]
                   @@ [result |-> result, logs |-> logs, parsed |-> parsed,
                       error |-> TestFailedMessage(<<"validation error for PgbenchTestReport">>)]
  /\ UNCHANGED <<pgService, pgConfig, svcVars, runVars, reportVars, toolVars>>

\* The subprocess exits with a code other than 0.
PgbenchExitsNonZero ==
  /\ pgRun.stage = "communicate"
  /\ pgRun.process = "running"
  /\ \E returncode \in {1, 2}, stderr \in Stderrs :
       LET result == [args |-> pgRun.cmd, returncode |-> returncode, stdout |-> <<>>,
                      stderr |-> stderr]
       IN pgRun' = [pgRun EXCEPT !.stage = "failed", !.process = "exited"]
                     @@ [result |-> result,
                         error |-> TestFailedMessage(ExecutionFailedMessage(result))]
  /\ UNCHANGED <<pgService, pgConfig, svcVars, runVars, reportVars, toolVars>>

\* The subprocess stops making progress (a connection that never answers):
\* it neither exits nor closes its pipes.
PgbenchHangs ==
  /\ pgRun.stage = "communicate"
  /\ pgRun.process = "running"
  /\ pgRun' = [pgRun EXCEPT !.process = "hung"]
  /\ UNCHANGED <<pgService, pgConfig, svcVars, runVars, reportVars, toolVars>>

\* refresh_credentials stores a new token.
PgbenchRefreshCredentials ==
  /\ pgService.initialized
  /\ pgRun.stage \in {"idle", "communicate"}
  /\ \E t \in PgTokens \ {pgService._postgres_password} :
       pgService' = [pgService EXCEPT !._postgres_password = t]
  /\ UNCHANGED <<pgConfig, pgRun, svcVars, runVars, reportVars, toolVars>>

PgbenchNext ==
  \/ PgbenchNotInitialized
  \/ PgbenchStarts
  \/ PgbenchExitsZero
  \/ PgbenchExitsNonZero
  \/ PgbenchHangs
  \/ PgbenchRefreshCredentials

PgbenchSpec == PgbenchInit /\ [][PgbenchNext]_vars

\* The event loop runs the coroutine whenever it can go on, and a subprocess
\* that has not hung exits.
PgbenchFairSpec ==
  /\ PgbenchSpec
  /\ WF_vars(PgbenchNotInitialized)
  /\ WF_vars(PgbenchStarts)
  /\ WF_vars(PgbenchExitsZero \/ PgbenchExitsNonZero)

(***************************************************************************)
(* The pool of the run-uploaded-tests and run-predefined-tests endpoints:  *)
(* the endpoint derives a pool_config from the request's                   *)
(* concurrency_level and hands it to initialize_connection_pool.           *)
(***************************************************************************)
\* Largest concurrency_level of a request to these endpoints.
MaxLevel == 24

\* pool_config as run_uploaded_tests and run_predefined_tests build it.
EndpointPoolConfig(concurrency_level) ==
  [base_pool_size |-> Max(1, concurrency_level \div 4),
   max_overflow |-> concurrency_level,
   pool_timeout |-> 30,
   pool_recycle |-> 3600,
   command_timeout |-> 30,
   ssl_mode |-> "require"]

\* pool_timeout of initialize_connection_pool.
PoolTimeoutSeconds(cfg) == Get(cfg, "DB_POOL_TIMEOUT", 10)

\* The request of one of the two endpoints: one query with one scenario.
EndpointInputs ==
  {[concurrency_level |-> n,
    scenarios |-> <<[execution_count |-> MaxReps, parameters |-> "list"]>>,
    pool_config |-> EndpointPoolConfig(n),
    endpoint |-> ep] :
     n \in 1..MaxLevel, ep \in {"run_uploaded_tests", "run_predefined_tests"}}

\* A request reaches one of the two endpoints.
SizedRequestStarts ==
  \E input \in EndpointInputs :
    /\ EndpointStart("r1", "ok", input)
    /\ asked' = asked + InputUnits(input)
    /\ units' = [units EXCEPT !["r1"] = InputUnits(input)]

SizingNext ==
  \/ SizedRequestStarts
  \/ UnitConnectNew("r1", 1)
  \/ UnitCheckoutIdle("r1", 1)
  \/ UnitSucceeds("r1", 1)
  \/ UnitQueryFails("r1", 1)
  \/ RunReturns("r1")
  \/ EngineDispose("r1")

SizingSpec == Init /\ [][SizingNext]_vars

(***************************************************************************)
(* _convert_ps_placeholders: %s placeholders become named bind parameters. *)
(***************************************************************************)
MaxQueryLen == 4
MaxParams == 2

\* The characters the queries are written with.
QueryAlphabet == {"%", "s", "a", ":"}

\* The while loop from position i (1-based), idx placeholders seen so far:
\* the items appended to the list converted.  This one numbers them from 0.
RECURSIVE ConvertFromZeroBased(_, _, _)
ConvertFromZeroBased(query, i, idx) ==
  IF i > Len(query) THEN <<>>
  ELSE IF i + 1 <= Len(query) /\ query[i] = "%" /\ query[i + 1] = "s"
       THEN <<":p" \o ToString(idx)>> \o ConvertFromZeroBased(query, i + 2, idx + 1)
       ELSE <<query[i]>> \o ConvertFromZeroBased(query, i + 1, idx)

\* The while loop from position i (1-based), idx placeholders seen so far:
\* the items appended to the list converted.
RECURSIVE ConvertFrom(_, _, _)
ConvertFrom(query, i, idx) ==
  IF i > Len(query) THEN <<>>
  ELSE IF i + 1 <= Len(query) /\ query[i] = "%" /\ query[i + 1] = "s"
       THEN <<":p" \o ToString(idx + 1)>> \o ConvertFrom(query, i + 2, idx + 1)
       ELSE <<query[i]>> \o ConvertFrom(query, i + 1, idx)

\* "".join(converted)
RECURSIVE Join(_)
Join(items) == IF items = <<>> THEN "" ELSE Head(items) \o Join(Tail(items))

\* _convert_ps_placeholders(query, params): the list converted, the string
\* returned and the mapping returned.
ConvertPsPlaceholders(query, params) ==
  LET converted == ConvertFrom(query, 1, 0)
      keys == {"p" \o ToString(i + 1) : i \in 0..(Len(params) - 1)}
      mapping == [k \in keys |->
                    params[(CHOOSE i \in 0..(Len(params) - 1) : k = "p" \o ToString(i + 1)) + 1]]
  IN [converted |-> converted, text |-> Join(converted), mapping |-> mapping]

\* The calls of _execute_single_query_async: a query and its parameter list.
ConvertCalls ==
  LET queries == UNION {[1..n -> QueryAlphabet] : n \in 0..MaxQueryLen}
      lists == UNION {[1..n -> {"x", "y"}] : n \in 0..MaxParams}
  IN {[fn |-> "_convert_ps_placeholders", query |-> q, params |-> ps, returned |-> FALSE] :
        q \in queries, ps \in lists}

\* Nothing but a function call is in progress: one of calls.
ToolInit(calls) ==
  /\ engine = NoEngine
  /\ password = 0
  /\ refreshers = 0
  /\ issued = 0
  /\ refreshes = 0
  /\ lastRefresh = "none"
  /\ pool = [e \in Requests |-> EmptyPool]
  /\ disposing = {}
  /\ pc = [r \in Requests |-> "idle"]
  /\ req = [r \in Requests |-> NoInput]
  /\ sem = [r \in Requests |-> 0]
  /\ task = [r \in Requests |-> <<>>]
  /\ report = [r \in Requests |-> NoReport]
  /\ setupFailed = [r \in Requests |-> FALSE]
  /\ asked = 0
  /\ units = [r \in Requests |-> 0]
  /\ all_results = <<>>
  /\ window = NoWindow
  /\ aggregate = NoAggregate
  /\ advice = NoAdvice
  /\ pgService = NoPgService
  /\ pgConfig = NoPgConfig
  /\ pgRun = NoPgRun
  /\ call \in calls
  /\ runner = NoRunner
  /\ worker = [w \in QuickWorkers |-> NoWorker]
  /\ results_queue = <<>>
  /\ collector = NoCollector

ConvertInit == ToolInit(ConvertCalls)

\* converted_query, params_map = self._convert_ps_placeholders(query, parameters)
Convert ==
  /\ call.fn = "_convert_ps_placeholders"
  /\ ~call.returned
  /\ call' = [call EXCEPT !.returned = TRUE] @@
             ConvertPsPlaceholders(call.query, call.params)
  /\ UNCHANGED <<svcVars, runVars, reportVars, pgVars, quickVars>>

ConvertNext == Convert

ConvertSpec == ConvertInit /\ [][ConvertNext]_vars

(***************************************************************************)
(* LakebaseCostEstimator.calculate_cu_requirements.  The CU amounts are     *)
(* exact fractions.                                                         *)
(***************************************************************************)
bulk_cu_ratio == 14000
continuous_cu_ratio == 1500
read_cu_ratio == 10000

RECURSIVE GCD(_, _)
GCD(a, b) == IF b = 0 THEN a ELSE GCD(b, a % b)

\* a + b over the least common denominator.
RatAdd(a, b) ==
  LET l == (a.den \div GCD(a.den, b.den)) * b.den
  IN Rat(a.num * (l \div a.den) + b.num * (l \div b.den), l)

\* a <= b
RatLe(a, b) == ~RatLt(b, a)

\* _round_up_to_valid_cu(total_cu)
RoundUpToValidCu(total_cu) ==
  IF RatLe(total_cu, Rat(1, 1)) THEN 1
  ELSE IF RatLe(total_cu, Rat(2, 1)) THEN 2
  ELSE IF RatLe(total_cu, Rat(4, 1)) THEN 4
  ELSE 8

\* calculate_cu_requirements(config): the dict returned.
CalculateCuRequirements(config) ==
  LET bulk_cu == Rat(config.bulk_writes_per_second, bulk_cu_ratio)
      continuous_cu == Rat(config.continuous_writes_per_second, continuous_cu_ratio)
      read_cu == Rat(config.reads_per_second, read_cu_ratio)
      total_cu == RatAdd(RatAdd(bulk_cu, continuous_cu), read_cu)
  IN [bulk_cu |-> bulk_cu, continuous_cu |-> continuous_cu, read_cu |-> read_cu,
      total_cu |-> total_cu, recommended_cu |-> RoundUpToValidCu(total_cu)]

\* The workloads estimated: the rates of a WorkloadConfig that the CU
\* calculation reads.  15000, 1200 and 10000 are the rates of the unit test.
WorkloadConfigs ==
  {[bulk_writes_per_second |-> b, continuous_writes_per_second |-> c, reads_per_second |-> r] :
     b \in {0, 7000, 14000, 15000, 56000, 112000},
     c \in {0, 1200, 1500, 6000, 12000},
     r \in {0, 10000, 20000, 40000, 100000}}

CuCalls ==
  {[fn |-> "calculate_cu_requirements", config |-> config, returned |-> FALSE] :
     config \in WorkloadConfigs}

CuInit == ToolInit(CuCalls)

\* cu_requirements = self.calculate_cu_requirements(config)
CalculateCu ==
  /\ call.fn = "calculate_cu_requirements"
  /\ ~call.returned
  /\ call' = [call EXCEPT !.returned = TRUE] @@ CalculateCuRequirements(call.config)
  /\ UNCHANGED <<svcVars, runVars, reportVars, pgVars, quickVars>>

CuNext == CalculateCu

CuSpec == CuInit /\ [][CuNext]_vars

(***************************************************************************)
(* The two aggregations on a list of results and on its reorderings.       *)
(***************************************************************************)
\* Results of a run inside the window w; a failed one carries the name of the
\* exception that was raised.
TypedResultsIn(w) ==
  {IF r.success THEN r ELSE [r EXCEPT !.error_type = t] :
     r \in ResultsIn(w), t \in {"TimeoutError", "OperationalError"}}

\* The lists handed to the aggregations, in the order in which the executions
\* completed.
ReorderCalls ==
  LET w == [test_start_time |-> 1, test_end_time |-> 2, concurrency_level |-> 1]
  IN {[fn |-> "_generate_test_report", window |-> w, results |-> rs, returned |-> FALSE,
       first |-> NoAggregate, report |-> NoAggregate] :
        rs \in UNION {[1..n -> TypedResultsIn(w)] : n \in 0..MaxResults}}

ReorderInit == ToolInit(ReorderCalls)

\* The list is aggregated in the order given.
AggregateGiven ==
  /\ call.fn = "_generate_test_report"
  /\ ~call.returned
  /\ call' = [call EXCEPT !.returned = TRUE,
                          !.first = Aggregation(call.window, call.results),
                          !.report = Aggregation(call.window, call.results)]
  /\ UNCHANGED <<svcVars, runVars, reportVars, pgVars, quickVars>>

\* The same results, completed in another order, are aggregated.
AggregateReordered ==
  /\ call.fn = "_generate_test_report"
  /\ call.returned
  /\ \E p \in {q \in [DOMAIN call.results -> DOMAIN call.results] :
                 \A i, j \in DOMAIN call.results : q[i] = q[j] => i = j} :
       LET reordered == [i \in DOMAIN call.results |-> call.results[p[i]]]
       IN call' = [call EXCEPT !.results = reordered,
                               !.report = Aggregation(call.window, reordered)]
  /\ UNCHANGED <<svcVars, runVars, reportVars, pgVars, quickVars>>

ReorderNext == AggregateGiven \/ AggregateReordered

ReorderSpec == ReorderInit /\ [][ReorderNext]_vars

(***************************************************************************)
(* The threaded quickstart runner: run_scenario of ConcurrencyTestRunner,   *)
(* its WorkloadWorker threads and its MetricsCollector.                     *)
(***************************************************************************)
\* Queries one worker executes at most.
MaxQueries == 2

\* What a scenario's durations decide: whether there is a steady state phase
\* (steady_duration > 0) and a ramp-down phase (ramp_down_duration > 0).
QuickScenarios == [monitor : BOOLEAN, ramp_down : BOOLEAN]

quickRest == <<call, svcVars, runVars, reportVars, pgVars>>

QuickInit == ToolInit({NoCall})

\* run_scenario up to the first worker: initialize_pool(), a new
\* MetricsCollector and start_collection().
RunScenarioBegins ==
  /\ runner.at = "constructed"
  /\ \E sc \in QuickScenarios :
       runner' = [runner EXCEPT !.at = "ramp_up", !.pool = "open", !.scenario = sc]
  /\ collector' = [NoCollector EXCEPT !.collecting = TRUE]
  /\ results_queue' = <<>>
  /\ UNCHANGED <<worker, quickRest>>

\* _ramp_up_workers or _start_all_workers: worker w is constructed, appended to
\* self.workers and its thread is started.
StartWorker(w) ==
  /\ runner.at = "ramp_up"
  /\ w \notin runner.workers
  /\ runner' = [runner EXCEPT !.workers = @ \cup {w}, !.worker_threads = @ \cup {w}]
  /\ worker' = [worker EXCEPT ![w] = [running |-> FALSE, thread |-> "started", result |-> 0]]
  /\ UNCHANGED <<results_queue, collector, quickRest>>

\* Where _execute_scenario goes after a phase.
AfterRampUp(sc) ==
  IF sc.monitor THEN "monitor" ELSE IF sc.ramp_down THEN "ramp_down" ELSE "stop_all"

\* Every worker has been started.
RampUpEnds ==
  /\ runner.at = "ramp_up"
  /\ runner.workers = QuickWorkers
  /\ runner' = [runner EXCEPT !.at = AfterRampUp(runner.scenario)]
  /\ UNCHANGED <<worker, results_queue, collector, quickRest>>

\* WorkloadWorker.run begins in its thread: self.running = True.
WorkerRuns(w) ==
  /\ worker[w].thread = "started"
  /\ worker' = [worker EXCEPT ![w].running = TRUE, ![w].thread = "loop"]
  /\ UNCHANGED <<runner, results_queue, collector, quickRest>>

\* while self.running and time.time() < end_time: the worker begins execute_query.
WorkerContinues(w) ==
  /\ worker[w].thread = "loop"
  /\ worker[w].running
  /\ worker[w].result < MaxQueries
  /\ worker' = [worker EXCEPT ![w].thread = "executing"]
  /\ UNCHANGED <<runner, results_queue, collector, quickRest>>

\* The loop ends, because running is False or the duration is over:
\* self.running = False and the thread ends.
WorkerExits(w) ==
  /\ worker[w].thread = "loop"
  /\ worker' = [worker EXCEPT ![w].running = FALSE, ![w].thread = "exited"]
  /\ UNCHANGED <<runner, results_queue, collector, quickRest>>

\* execute_query returns a QueryResult, the worker puts it on the queue and
\* sleeps for the think time.
WorkerPuts(w) ==
  /\ worker[w].thread = "executing"
  /\ results_queue' = Append(results_queue, <<w, worker[w].result + 1>>)
  /\ worker' = [worker EXCEPT ![w].result = @ + 1, ![w].thread = "loop"]
  /\ UNCHANGED <<runner, collector, quickRest>>

\* _monitor_execution: get_nowait() and collect_result(result).
MonitorCollects ==
  /\ runner.at = "monitor"
  /\ results_queue # <<>>
  /\ collector' = [collector EXCEPT !.results =
                     IF collector.collecting THEN Append(@, Head(results_queue)) ELSE @]
  /\ results_queue' = Tail(results_queue)
  /\ UNCHANGED <<runner, worker, quickRest>>

\* The steady state duration is over.
MonitorEnds ==
  /\ runner.at = "monitor"
  /\ runner' = [runner EXCEPT !.at = IF runner.scenario.ramp_down THEN "ramp_down"
                                     ELSE "stop_all"]
  /\ UNCHANGED <<worker, results_queue, collector, quickRest>>

\* worker.stop() for every worker of self.workers.
StopWorkers ==
  [w \in QuickWorkers |->
     IF w \in runner.workers THEN [worker[w] EXCEPT !.running = FALSE] ELSE worker[w]]

\* _ramp_down_workers: every worker is stopped, then the threads are joined.
RampDownWorkers ==
  /\ runner.at = "ramp_down"
  /\ worker' = StopWorkers
  /\ runner' = [runner EXCEPT !.at = "join_ramp_down"]
  /\ UNCHANGED <<results_queue, collector, quickRest>>

\* _stop_all_workers, called in the try block when there is no ramp-down and
\* in the finally block always: every worker is stopped, then the threads
\* are joined.
StopAllWorkers ==
  /\ runner.at \in {"stop_all", "finally"}
  /\ worker' = StopWorkers
  /\ runner' = [runner EXCEPT !.at = "join_" \o runner.at]
  /\ UNCHANGED <<results_queue, collector, quickRest>>

\* After the joins: _ramp_down_workers returns, _stop_all_workers clears
\* self.workers and returns.
AfterJoin ==
  IF runner.at = "join_finally"
  THEN [runner EXCEPT !.at = "stop_collection", !.workers = {}]
  ELSE IF runner.at = "join_stop_all"
       THEN [runner EXCEPT !.at = "finally", !.workers = {}]
       ELSE [runner EXCEPT !.at = "finally"]

Joining == runner.at \in {"join_ramp_down", "join_stop_all", "join_finally"}

\* Every thread.join(timeout=...) returns because its thread has ended.
JoinReturns ==
  /\ Joining
  /\ \A w \in runner.worker_threads : worker[w].thread = "exited"
  /\ runner' = AfterJoin
  /\ UNCHANGED <<worker, results_queue, collector, quickRest>>

\* A thread.join(timeout=...) returns because the timeout has passed.
JoinTimesOut ==
  /\ Joining
  /\ \E w \in runner.worker_threads : worker[w].thread # "exited"
  /\ runner' = AfterJoin
  /\ UNCHANGED <<worker, results_queue, collector, quickRest>>

\* stop_collection(): collecting = False and the queue is drained into results.
StopCollection ==
  /\ runner.at = "stop_collection"
  /\ collector' = [collector EXCEPT !.collecting = FALSE, !.results = @ \o results_queue]
  /\ results_queue' = <<>>
  /\ runner' = [runner EXCEPT !.at = "calculate"]
  /\ UNCHANGED <<worker, quickRest>>

\* calculate_metrics() aggregates self.results.
CalculateMetrics ==
  /\ runner.at = "calculate"
  /\ collector' = [collector EXCEPT !.metrics =
                     [calculated |-> TRUE, results |-> collector.results]]
  /\ runner' = [runner EXCEPT !.at = "close_pool"]
  /\ UNCHANGED <<worker, results_queue, quickRest>>

\* finally: self.connection_manager.close_pool()
ClosePool ==
  /\ runner.at = "close_pool"
  /\ runner' = [runner EXCEPT !.at = "returned", !.pool = "closed"]
  /\ UNCHANGED <<worker, results_queue, collector, quickRest>>

QuickNext ==
  \/ RunScenarioBegins
  \/ \E w \in QuickWorkers : StartWorker(w)
  \/ RampUpEnds
  \/ \E w \in QuickWorkers : WorkerRuns(w)
  \/ \E w \in QuickWorkers : WorkerContinues(w)
  \/ \E w \in QuickWorkers : WorkerExits(w)
  \/ \E w \in QuickWorkers : WorkerPuts(w)
  \/ MonitorCollects
  \/ MonitorEnds
  \/ RampDownWorkers
  \/ StopAllWorkers
  \/ JoinReturns
  \/ JoinTimesOut
  \/ StopCollection
  \/ CalculateMetrics
  \/ ClosePool

QuickSpec == QuickInit /\ [][QuickNext]_vars

(***************************************************************************)
(* Properties.                                                             *)
(***************************************************************************)
Running(r) == pc[r] = "running"
Units == {rp \in Requests \X (1..MaxPairs) : rp[2] \in Pairs(rp[1])}

\* Units of run r past the admission gate that have not finished.
InFlight(r) == Cardinality({p \in Pairs(r) : task[r][p].st \in {"poolwait", "executing"}})

\* Units that hold a connection of engine e.
Holders(e) == {rp \in Units : task[rp[1]][rp[2]].st = "executing" /\ task[rp[1]][rp[2]].eng = e}

\* C1: the report of every run counts one result per attempted repetition:
\* total_queries_executed is the sum of execution_count over the (query, scenario)
\* pairs of the request, and successful + failed = total.
C1_TotalIsSumOfCounts ==
  \A r \in Requests :
    pc[r] = "done" =>
      /\ report[r].total = units[r]
      /\ report[r].successful + report[r].failed = report[r].total

\* C2: at every moment at most concurrency_level units of a run are past the
\* admission gate and not finished; the semaphore counts exactly the free permits.
C2_InFlightBounded ==
  \A r \in Requests :
    Running(r) =>
      /\ InFlight(r) <= req[r].concurrency_level
      /\ sem[r] = req[r].concurrency_level - InFlight(r)

\* Witness of C2: the gate is closed - a run of concurrency_level 1 has one unit
\* in flight and another runner waiting at the semaphore.
C2_Witness ==
  \E r \in Requests :
    /\ Running(r)
    /\ req[r].concurrency_level = 1
    /\ InFlight(r) = 1
    /\ \E p \in Pairs(r) : task[r][p].st = "waiting"

\* The physical connections that exist: checked out by a unit, or idle in a pool.
Connections ==
  {task[rp[1]][rp[2]].conn : rp \in {x \in Units : task[x[1]][x[2]].st = "executing"}}
  \cup UNION {{pool[e].idle[i] : i \in DOMAIN pool[e].idle} : e \in Requests}

\* C3: every physical connection authenticated with the token that was current
\* (the last one issued and stored) at the moment it was opened.
C3_ConnectsWithCurrentToken == \A c \in Connections : c.auth = c.at

\* Witness of C3: a connection opened after a successful background refresh, with
\* a token newer than the one that was current when its engine was created.
C3_Witness ==
  /\ lastRefresh = "ok"
  /\ \E rp \in Units :
       LET t == task[rp[1]][rp[2]]
       IN /\ t.st = "executing"
          /\ t.conn.auth = issued
          /\ t.conn.auth > pool[t.eng].created
          /\ pool[t.eng].created > 0

\* C4: no error raised in a unit leaves _execute_single_query_async: no runner task
\* ever ends with an exception, each error is a failed result of its unit.
C4_UnitErrorsBecomeResults ==
  \A rp \in Units : task[rp[1]][rp[2]].st # "raised"

\* C5: once close_connection_pool has returned (the engine is cleared after a run),
\* no refresher task is alive.
C5_CloseCancelsRefresher ==
  (engine = NoEngine /\ \E r \in Requests : pc[r] = "done") => refreshers = 0

\* C8: the connections checked out of a pool are exactly those held by units that
\* are executing a query, a unit that is not executing holds none, and when no run
\* is in progress no connection is checked out.
C8_ConnectionsReturned ==
  /\ \A e \in Requests : pool[e].out = Cardinality(Holders(e))
  /\ \A rp \in Units :
       task[rp[1]][rp[2]].st # "executing" => task[rp[1]][rp[2]].conn = NoConn
  /\ (\A r \in Requests : ~Running(r)) => \A e \in Requests : pool[e].out = 0

\* Witness of C8: a unit whose query raised has ended, and the connection it held
\* is back in the pool while its run goes on.
C8_Witness ==
  \E rp \in Units :
    LET t == task[rp[1]][rp[2]]
    IN /\ Running(rp[1])
       /\ t.st = "waiting"
       /\ t.results # <<>>
       /\ t.results[Len(t.results)].error_type = "DBAPIError"
       /\ engine # NoEngine
       /\ pool[engine].out = 0
       /\ pool[engine].idle # <<>>

\* C9: a request whose initialize_connection_pool raised has failed, and none of
\* its queries was scheduled or executed.
C9_SetupFailureIsFatal ==
  \A r \in Requests :
    setupFailed[r] =>
      /\ pc[r] = "failed"
      /\ task[r] = <<>>
      /\ units[r] = 0
      /\ report[r] = NoReport

\* Witness of C9: the setup of a request failed while the engine of another
\* request was in place and that request was running.
C9_Witness ==
  \E r, o \in Requests :
    /\ r # o
    /\ setupFailed[r]
    /\ pc[r] = "failed"
    /\ Running(o)
    /\ \E p \in Pairs(o) : task[o][p].st = "executing"

\* C10: the executor schedules one independent unit per (query, scenario,
\* repetition): the tasks of a run are as many as the sum of the repetition counts.
C10_OneUnitPerRepetition ==
  \A r \in Requests : Running(r) => Len(task[r]) = units[r]
\* A wake-up of the refresher loop in which generate_database_credential raised.
FailedRefreshStep == refreshes' = refreshes + 1 /\ lastRefresh' = "failed"

\* C6: a failed refresh leaves the token cell, the refresher task, the pools and
\* every run as they were, and while the loop is followed (fewer than MaxRefresh
\* wake-ups so far) a failed wake-up is followed by another wake-up.
C6_FailedRefreshIsRetried ==
  /\ [][FailedRefreshStep =>
          /\ password' = password
          /\ refreshers' = refreshers /\ refreshers' > 0
          /\ engine' = engine /\ pool' = pool
          /\ task' = task /\ pc' = pc]_vars
  /\ \A n \in 1..(MaxRefresh - 1) :
       (lastRefresh = "failed" /\ refreshes = n) ~> (refreshes > n)

\* Witness of C6: a refresh has failed while a query was being executed, and a
\* later wake-up of the loop stored a new token.
C6_Witness ==
  /\ refreshes >= 2
  /\ lastRefresh = "ok"
  /\ password = issued
  /\ \E r \in Requests : issued = 2 /\ pc[r] = "running" /\ pc[CHOOSE o \in Requests : o # r] = "idle"
  /\ \E rp \in Units : task[rp[1]][rp[2]].st = "executing"

\* A unit waits in the queue of an exhausted pool.
WaitsOnExhaustedPool(r, p) == PoolWaiting(r, p) /\ PoolExhausted(pool[task[r][p].eng])

\* The step in which the wait of unit (r, p) ends although no connection has come back.
PoolWaitGivesUp(r, p) ==
  /\ WaitsOnExhaustedPool(r, p)
  /\ task'[r] # <<>>
  /\ task'[r][p].st # "poolwait"

\* C7: a unit never waits for a connection forever, and a wait that ends without a
\* connection is a failed result (TimeoutError) of that unit: its runner goes on,
\* the permit is released, and the run and its other runners are untouched.
C7_AcquireTimesOut ==
  /\ \A r \in Requests, p \in 1..MaxPairs : PoolWaiting(r, p) ~> ~PoolWaiting(r, p)
  /\ [][\A r \in Requests, p \in 1..MaxPairs :
          PoolWaitGivesUp(r, p) =>
            /\ pc'[r] = "running"
            /\ task'[r][p].st \in {"waiting", "finished"}
            /\ task'[r][p].results =
                 Append(task[r][p].results, FailedResult(p, "TimeoutError"))
            /\ sem'[r] = sem[r] + 1
            /\ \A q \in Pairs(r) \ {p} : task'[r][q] = task[r][q]]_vars

\* Witness of C7: a unit has timed out on the pool and is recorded as failed while
\* another unit of the same run is still executing.
C7_Witness ==
  \E r \in Requests :
    /\ Running(r)
    /\ \E p, q \in Pairs(r) :
         /\ p # q
         /\ task[r][p].results # <<>>
         /\ task[r][p].results[Len(task[r][p].results)] = FailedResult(p, "TimeoutError")
         /\ task[r][q].st = "executing"

\* C11: for n >= 1 successful durations the reported p95 and p99 are the element at
\* zero-based index floor(p * (n - 1)) of the durations sorted ascending, clamped to
\* the maximum when the index is out of range.
C11_PercentilesAreNearestRank ==
  (aggregate # NoAggregate /\ ExecutionTimes(all_results) # <<>>) =>
    LET sorted == Sorted(ExecutionTimes(all_results))
        rank(p) == (p * (Len(sorted) - 1)) \div 100
        nearest(p) == IF rank(p) < Len(sorted) THEN sorted[rank(p) + 1] ELSE MaxOf(sorted)
    IN /\ aggregate.service.latency.p95_execution_time_ms = nearest(P95)
       /\ aggregate.service.latency.p99_execution_time_ms = nearest(P99)

\* C16: the latency statistics (average, min, max, p95, p99) of both aggregations
\* depend on the successful results only - an aggregation of a list with the same
\* successful results yields the same statistics - and are all 0 when no result
\* is successful.
C16_LatencyFromSuccessesOnly ==
  /\ [][(/\ aggregate # NoAggregate
         /\ aggregate' # NoAggregate
         /\ Successful(all_results') = Successful(all_results)) =>
          /\ aggregate'.service.latency = aggregate.service.latency
          /\ (all_results # <<>> /\ all_results' # <<>>) =>
               aggregate'.metrics.latency = aggregate.metrics.latency]_vars
  /\ [](aggregate # NoAggregate /\ Successful(all_results) = <<>> =>
          /\ aggregate.service.latency = LatencyStatistics(<<>>)
          /\ aggregate.service.latency.p95_execution_time_ms = 0
          /\ aggregate.service.latency.max_execution_time_ms = 0
          /\ RatEq(aggregate.service.latency.average_execution_time_ms, Rat(0, 1)))

\* Witness of C16: a list with a successful result and a slower failed one has been
\* aggregated, and every latency statistic is the duration of the successful one.
C16_Witness ==
  /\ aggregate # NoAggregate
  /\ Len(Successful(all_results)) = 1
  /\ Len(FailedOnes(all_results)) = 2
  /\ \E i \in DOMAIN all_results :
       /\ ~all_results[i].success
       /\ all_results[i].duration_ms > Successful(all_results)[1].duration_ms
  /\ Successful(all_results)[1].duration_ms > 0
  /\ aggregate.service.latency.max_execution_time_ms = Successful(all_results)[1].duration_ms
  /\ aggregate.service.latency.p99_execution_time_ms = Successful(all_results)[1].duration_ms

\* C17: throughput is the number of attempted executions divided by the span from
\* the earliest start_time to the latest end_time over all results, in the report
\* of the connection service and in that of the metrics service alike.
C17_ThroughputOverResultSpan ==
  (aggregate # NoAggregate /\ all_results # <<>>) =>
    LET first == MinOf([i \in DOMAIN all_results |-> all_results[i].execution_start_time])
        last == MaxOf([i \in DOMAIN all_results |-> all_results[i].execution_end_time])
    IN last > first =>
         /\ RatEq(aggregate.service.throughput_queries_per_second,
                  Rat(Len(all_results), last - first))
         /\ RatEq(aggregate.metrics.throughput_queries_per_second,
                  aggregate.service.throughput_queries_per_second)

\* C18: the recommendations are determined by the three thresholds only: each flag
\* is in the list iff its condition holds, the list is the single healthy note
\* exactly when none of the three conditions holds, and it is never empty.
C18_RecommendationsFromThreeThresholds ==
  advice.calls > 0 =>
    LET list == advice.service
        has(m) == \E i \in DOMAIN list : list[i] = m
        low == RatLt(advice.success_rate, Rat(95, 100))
        slow == RatLt(Rat(5000, 1), advice.avg_execution_time)
        thin == RatLt(advice.throughput, Rat(10, 1))
    IN /\ has("Success rate is below 95%") <=> low
       /\ has("Average execution time is high") <=> slow
       /\ has("Throughput is low") <=> thin
       /\ (list = <<"Performance looks good">>) <=> ~(low \/ slow \/ thin)
       /\ list # <<>>

\* C19: aggregation is a pure function of its input: aggregating the same list with
\* the same test times and concurrency level again yields the same report fields,
\* whatever the state of the engine and the pool.
C19_AggregationIsPure ==
  [][(/\ aggregate # NoAggregate
      /\ aggregate' # NoAggregate
      /\ all_results' = all_results
      /\ window' = window) => aggregate' = aggregate]_vars
\* C20: for every configuration the built pgbench command holds exactly one
\* run-length option, -T or -t and never both, and it is "-T 30" when neither
\* a duration nor a transaction count is configured.
C20_ExactlyOneRunLengthOption ==
  "built" \in DOMAIN pgRun =>
    LET cmd == pgRun.built
        config == pgConfig.config
        durations == {i \in DOMAIN cmd : cmd[i] = "-T"}
        counts == {i \in DOMAIN cmd : cmd[i] = "-t"}
    IN /\ Cardinality(durations) + Cardinality(counts) = 1
       /\ ("duration_seconds" \notin DOMAIN config
            /\ "transactions_per_client" \notin DOMAIN config)
           => \E i \in durations : i < Len(cmd) /\ cmd[i + 1] = "30"

\* A command was built for a configuration that sets both a duration and a
\* transaction count.
C20_Witness ==
  /\ "built" \in DOMAIN pgRun
  /\ "duration_seconds" \in DOMAIN pgConfig.config
  /\ pgConfig.config.duration_seconds > 0
  /\ "transactions_per_client" \in DOMAIN pgConfig.config

\* C14: the credential never appears on the pgbench command line: the
\* argument vector of a run is the same whatever the token, and host, port,
\* database, user and token reach the child process only through PGHOST,
\* PGPORT, PGDATABASE, PGUSER and PGPASSWORD, with PGSSLMODE set to require.
C14_CredentialOnlyInEnvironment ==
  [][(pgRun.stage = "idle" /\ pgRun'.stage = "communicate") =>
       LET cmd == pgRun'.cmd
           env == pgRun'.env
           arguments == {cmd[i] : i \in DOMAIN cmd}
           script_files == WriteQueryScripts(pgConfig.weights, "/tmp/pgbench_work")
       IN /\ \A t \in PgTokens :
               /\ t \notin arguments
               /\ BuildPgbenchCommand([pgService EXCEPT !._postgres_password = t],
                                      pgConfig.config, script_files) = pgRun'.built
          /\ arguments \cap {pgService.read_write_dns, pgService._database,
                              pgService.user_name, "5432"} = {}
          /\ env.PGHOST = pgService.read_write_dns
          /\ env.PGPORT = "5432"
          /\ env.PGDATABASE = pgService._database
          /\ env.PGUSER = pgService.user_name
          /\ env.PGPASSWORD = pgService._postgres_password
          /\ env.PGSSLMODE = "require"]_vars

\* A subprocess was started and got the service's token in PGPASSWORD.
C14_Witness ==
  /\ pgRun.stage = "communicate"
  /\ pgRun.env.PGPASSWORD = "token-b"
  /\ pgRun.env.PGPASSWORD = pgService._postgres_password
  /\ Len(pgRun.cmd) > 0

C12_PercentilesEstimatedFromMoments ==
  (/\ pgRun.stage = "returned"
   /\ pgRun.logs = <<>>
   /\ Matches(pgRun.result.stdout, "latency average")
   /\ Matches(pgRun.result.stdout, "latency stddev")
   /\ ~Matches(pgRun.result.stdout, "95th percentile")
   /\ ~Matches(pgRun.result.stdout, "99th percentile")) =>
     LET mean == pgRun.report.average_latency_ms
         stddev == pgRun.report.latency_stddev_ms
         percentiles == pgRun.report.latency_percentiles
     IN /\ "p95" \in DOMAIN percentiles
        /\ "p99" \in DOMAIN percentiles
        /\ 1000 * percentiles.p95.num * mean.den * stddev.den
             = (1000 * mean.num * stddev.den + 1645 * stddev.num * mean.den)
                 * percentiles.p95.den
        /\ 1000 * percentiles.p99.num * mean.den * stddev.den
             = (1000 * mean.num * stddev.den + 2326 * stddev.num * mean.den)
                 * percentiles.p99.den

\* C13: every pgbench run ends: a subprocess that has not exited by the
\* deadline is killed and the run ends with a fatal error, so a run that
\* waits for its subprocess always comes to return a report or fail.
C13_RunEndsByDeadline ==
  (pgRun.stage = "communicate") ~> (pgRun.stage \in {"returned", "failed"})

\* C21: in every pgbench command that is built and executed the worker-thread
\* count (-j) is at most the client count (-c), whether jobs is given in the
\* configuration or defaulted.
C21_JobsAtMostClients ==
  "cmd" \in DOMAIN pgRun =>
    LET cmd == pgRun.cmd
        Number(text) == CHOOSE n \in 0..100 : ToString(n) = text
        Option(flag) == Number(cmd[1 + CHOOSE i \in DOMAIN cmd : cmd[i] = flag])
    IN Option("-j") <= Option("-c")

\* C22: exactly one script file is written per query, and in the built
\* command each query's script appears as a -f argument exactly weight times,
\* so the number of -f arguments is the sum of the weights of the queries.
C22_ScriptsRegisteredByWeight ==
  "built" \in DOMAIN pgRun =>
    LET cmd == pgRun.built
        files == pgRun.script_files
        weights == pgConfig.weights
        Registered(path) ==
          {k \in DOMAIN cmd : cmd[k] = "-f" /\ k < Len(cmd) /\ cmd[k + 1] = path}
    IN /\ Len(files) = Len(weights)
       /\ \A i, j \in DOMAIN files : files[i].script_path = files[j].script_path => i = j
       /\ \A i \in DOMAIN files : Cardinality(Registered(files[i].script_path)) = weights[i]
       /\ Cardinality({k \in DOMAIN cmd : cmd[k] = "-f"}) = SumOf(weights)

\* A command was built for two queries, the first of weight above one.
C22_Witness ==
  /\ "built" \in DOMAIN pgRun
  /\ Len(pgConfig.weights) = 2
  /\ pgConfig.weights[1] > 1

\* A wake-up of the refresher loop in which a new token was stored.
SuccessfulRefreshStep == refreshes' = refreshes + 1 /\ lastRefresh' = "ok"

\* C23: a credential refresh changes only the token cell (and the record of
\* the refresh): every connection that is open stays open with the credential
\* it authenticated with, and engine, pools, refresher task and runs are as
\* they were.
C23_RefreshKeepsOpenConnections ==
  [][SuccessfulRefreshStep =>
       /\ Connections' = Connections
       /\ pool' = pool /\ engine' = engine /\ disposing' = disposing
       /\ refreshers' = refreshers
       /\ task' = task /\ pc' = pc /\ sem' = sem /\ report' = report]_vars

\* An idle connection of a pool authenticated with an older token than the one
\* the last refresh stored.
C23_Witness ==
  /\ lastRefresh = "ok"
  /\ password = issued
  /\ \E e \in Requests : \E i \in DOMAIN pool[e].idle :
       pool[e].idle[i].auth > 0 /\ pool[e].idle[i].auth < password

\* C27: overlapping requests do not interfere through the shared service:
\* while a run is executing, the engine it was started on is still the
\* service's engine (not replaced by another request's initialisation, not
\* cleared by another request's close), and none of its units ends with the
\* error of a missing engine.
C27_RunsKeepTheirEngine ==
  \A r \in Requests :
    Running(r) =>
      /\ engine = r
      /\ r \notin disposing
      /\ \A p \in Pairs(r) : task[r][p].st # "raised"

\* C28: at most one background refresher task is alive per connection
\* service, whatever the sequence of initialisations and closes.
C28_AtMostOneRefresher == refreshers <= 1

\* The pool was initialised a second time, by a request that arrived after the
\* first one had started its refresher, and that refresher is still alive.
C28_Witness ==
  /\ pc["r1"] # "idle"
  /\ ~setupFailed["r1"]
  /\ pc["r2"] = "running"
  /\ ~setupFailed["r2"]
  /\ pool["r2"].pool_size > 0
  /\ refreshers = 1

\* C29: for the run-uploaded-tests and run-predefined-tests endpoints the pool
\* of the run is sized as the endpoint's pool_config says: base size
\* max(1, concurrency_level // 4), max overflow concurrency_level, acquire
\* timeout 30 s, so base size + max overflow is at least concurrency_level.
C29_PoolSizedFromConcurrency ==
  \A r \in Requests :
    (Running(r) /\ engine = r /\ "base_pool_size" \in DOMAIN req[r].pool_config) =>
      LET level == req[r].concurrency_level
      IN /\ pool[r].pool_size = (IF level \div 4 >= 1 THEN level \div 4 ELSE 1)
         /\ pool[r].max_overflow = level
         /\ PoolTimeoutSeconds(req[r].pool_config) = 30
         /\ pool[r].pool_size + pool[r].max_overflow >= level

\* The placeholders among the items of a converted list, in order.
PlaceholdersOf(items) == SelectSeq(items, LAMBDA t : t \notin QueryAlphabet)

\* A converted list with every placeholder put back as the two characters % s.
RECURSIVE Restored(_)
Restored(items) ==
  IF items = <<>> THEN <<>>
  ELSE (IF Head(items) \in QueryAlphabet THEN <<Head(items)>> ELSE <<"%", "s">>)
       \o Restored(Tail(items))

\* C24: _convert_ps_placeholders replaces the k-th occurrence of %s, left to
\* right, by :pk and leaves every other character unchanged and in order; the
\* mapping has exactly the keys p1..pn, bound to the n parameters in order, so
\* the i-th placeholder is bound to the i-th parameter.
C24_PlaceholdersNumberedInOrder ==
  (call.fn = "_convert_ps_placeholders" /\ call.returned) =>
    LET items == call.converted
        marks == PlaceholdersOf(items)
        n == Len(call.params)
    IN /\ Restored(items) = call.query
       /\ \A i \in 1..(Len(items) - 1) : ~(items[i] = "%" /\ items[i + 1] = "s")
       /\ \A k \in 1..Len(marks) : marks[k] = ":p" \o ToString(k)
       /\ call.text = Join(items)
       /\ DOMAIN call.mapping = {"p" \o ToString(k) : k \in 1..n}
       /\ \A k \in 1..n : call.mapping["p" \o ToString(k)] = call.params[k]

\* A query with two placeholders and other characters around them has been
\* converted with two parameters.
C24_Witness ==
  /\ call.fn = "_convert_ps_placeholders"
  /\ call.returned
  /\ call.query = <<"%", "s", "a", "%">>
  /\ call.params = <<"x", "y">>
  /\ call.text = ":p1a%"

\* C26: calculate_cu_requirements rounds the total CU requirement (bulk +
\* continuous + read CU) up to a valid tier: recommended_cu is the smallest
\* value of {1, 2, 4, 8} that is at least total_cu, for every workload.
C26_RecommendedCuIsSmallestTierAbove ==
  (call.fn = "calculate_cu_requirements" /\ call.returned) =>
    /\ call.total_cu = RatAdd(RatAdd(call.bulk_cu, call.continuous_cu), call.read_cu)
    /\ call.recommended_cu \in {1, 2, 4, 8}
    /\ RatLe(call.total_cu, Rat(call.recommended_cu, 1))
    /\ \A tier \in {1, 2, 4, 8} :
         RatLe(call.total_cu, Rat(tier, 1)) => call.recommended_cu <= tier

\* The aggregate fields of a report: total, succeeded, failed, success rate,
\* the latency statistics, throughput and recommendations.
AggregateFields(rep) ==
  <<rep.total_queries_executed, rep.successful_executions, rep.failed_executions,
    rep.success_rate, rep.latency.average_execution_time_ms,
    rep.latency.min_execution_time_ms, rep.latency.max_execution_time_ms,
    rep.latency.p95_execution_time_ms, rep.latency.p99_execution_time_ms,
    rep.throughput_queries_per_second, rep.recommendations>>

\* C25: the aggregate fields of a report (total, succeeded, failed, success
\* rate, average, min, max, p95 and p99 latency, throughput, recommendations)
\* are the same for every permutation of the result list.
C25_AggregatesIndependentOfOrder ==
  (call.fn = "_generate_test_report" /\ call.returned) =>
    /\ AggregateFields(call.report.service) = AggregateFields(call.first.service)
    /\ call.report.metrics.raised = call.first.metrics.raised
    /\ call.first.metrics.raised = "None" =>
         AggregateFields(call.report.metrics) = AggregateFields(call.first.metrics)

\* C30: in the threaded quickstart runner no result is lost: every QueryResult
\* a worker has put on the results queue is among the results calculate_metrics
\* aggregated, and no worker is executing a query when run_scenario closes the
\* connection pool.
C30_NoResultLostNoWorkerAtClose ==
  /\ [](collector.metrics.calculated =>
          \A w \in QuickWorkers : \A n \in 1..worker[w].result :
            \E i \in DOMAIN collector.metrics.results :
              collector.metrics.results[i] = <<w, n>>)
  /\ [][(runner.pool = "open" /\ runner'.pool = "closed") =>
          \A w \in QuickWorkers : worker[w].thread # "executing"]_vars

====
